---------------------------- MODULE Spec2Model ----------------------------
(***************************************************************************)
(* A model of the catalog backend (backend/apps/core, backend/apps/users): *)
(* the category tree and its resolver (full_path, get_descendants), the   *)
(* category / product write handlers with the foreign-key delete policies, *)
(* the stock handlers (Product.reduce_stock, ProductViewSet.update_stock), *)
(* and the review handlers (add_review, ReviewViewSet.create,              *)
(* mark_helpful).  A request handler that reads a row, computes in         *)
(* application code and saves is modelled in two steps (the read, then the *)
(* save), because requests of different workers interleave between them.   *)
(***************************************************************************)
EXTENDS Integers, Sequences, FiniteSets, TLC

(***************************************************************************)
(* Bounds of the model.                                                    *)
(***************************************************************************)
MaxCats == 3
MaxProducts == 2
MaxUsers == 3
\* workers handling stock requests at the same time
MaxStockWorkers == 2
\* the largest stock quantity the model follows
MaxStock == 15
\* rows of table reviews the model follows, and workers handling review requests
MaxReviews == 3
MaxReviewWorkers == 2
\* the largest helpful_votes the model follows
MaxVotes == 2
\* rows of table tags the model follows
MaxTags == 1
\* requests reading through the cache at the same time
MaxReaders == 2
\* the largest price and cost sent, in units of the currency
MaxPrice == 3
\* The interpreter's recursion limit (sys.getrecursionlimit()), scaled down.
\* It stays above MaxCats so that no acyclic chain of the model reaches it.
RecursionLimit == 6

CatId == 1..MaxCats
ProdId == 1..MaxProducts
UserId == 1..MaxUsers
StockWorker == 1..MaxStockWorkers
RevId == 1..MaxReviews
ReviewWorker == 1..MaxReviewWorkers
TagId == 1..MaxTags
Reader == 1..MaxReaders

NoParent == 0
NoCat == 0
NoName == ""
Anonymous == 0

\* Category names in the order of Category.Meta.ordering (sort_order is left at
\* its default 0 everywhere, so the ordering is by name).
NameSeq == <<"Books", "Computers", "Electronics", "Phones">>
Names == {NameSeq[i] : i \in 1..MaxCats}
NameRank(n) == CHOOSE i \in 1..Len(NameSeq) : NameSeq[i] = n

VARIABLES
    cats,       \* ids of the rows of table categories
    parent,     \* Category.parent of each row (NoParent: NULL)
    name,       \* Category.name of each row
    prodCat,    \* Product.category of each product row (NoCat: no such row)
    resp,       \* the response of the last request handled
    stock,      \* Product.stock_quantity of each product row
    stockReq,   \* the stock requests in flight, one slot per worker
    baseline,   \* the stock when the workers' responses were last collected
    reviews,    \* the rows of table reviews, by id
    reviewReq,  \* the review requests in flight, one slot per worker
    votesBase,  \* helpful_votes when the workers' responses were last collected
    tags,       \* ids of the rows of table tags
    prodTags,   \* Product.tags of each product row (the rows of the m2m table)
    published,  \* Product.status = 'published', of each product row
    cache,      \* django.core.cache.cache: the entries it holds, by key
    cacheUp,    \* whether the cache backend answers
    cacheReq,   \* the reads through the cache in flight, one slot per reader
    userRows,   \* ids of the rows of table users
    profiles,   \* the number of user_profiles rows of each user
    request,    \* the last request that went through check_permissions
    accounts,   \* User.role and User.is_staff of each user row, as stored
    prodRow     \* Product.price, cost, sku and created_by of each product row

treeVars == <<cats, parent, name, prodCat>>
stockVars == <<stock, stockReq, baseline>>
reviewVars == <<reviews, reviewReq, votesBase>>
tagVars == <<tags, prodTags, published>>
userVars == <<userRows, profiles>>
\* what no handler of the catalog, stock or review endpoints writes
\* the columns that only the handlers of the serializer sections write
rowVars == <<accounts, prodRow>>
envVars == <<cacheUp, cacheReq, userVars, request, rowVars>>
\* what the category and product handlers leave alone
offCatalog == <<stock, stockReq, baseline, reviewVars, envVars>>
vars == <<cats, parent, name, prodCat, resp, stock, stockReq, baseline,
          reviews, reviewReq, votesBase, tags, prodTags, published,
          cache, cacheUp, cacheReq, userRows, profiles, request, accounts, prodRow>>

(***************************************************************************)
(* Users.  The accounts are fixed here: one staff administrator, one       *)
(* manager and one regular user (User.role, AbstractUser.is_staff).        *)
(***************************************************************************)
role == [u \in UserId |-> IF u = 1 THEN "admin" ELSE IF u = 2 THEN "manager" ELSE "user"]
is_staff == [u \in UserId |-> u = 1]
is_admin(u) == role[u] = "admin"
is_manager(u) == role[u] = "manager"

\* the stored columns of the accounts above
InitialAccounts == [u \in UserId |-> [role |-> role[u], is_staff |-> is_staff[u]]]
\* a NULL cost, and the columns of a product row that is not there
NoCost == -1
NoRow == [price |-> 0, cost |-> NoCost, sku |-> 0, created_by |-> 0]

SAFE_METHODS == {"GET", "HEAD", "OPTIONS"}

has_permission_any_authenticated(authenticated, staff, r, method) == authenticated

\* IsAdminOrManagerOrReadOnly.has_permission, on the attributes of request.user
\* (an AnonymousUser is not authenticated, not staff and has no role)
has_permission(authenticated, staff, r, method) ==
    IF ~authenticated THEN FALSE
    ELSE IF method \in SAFE_METHODS THEN TRUE
    ELSE staff \/ r = "admin" \/ r = "manager"

\* the same for the accounts above and the anonymous caller
IsAdminOrManagerOrReadOnly(u, method) ==
    IF u = Anonymous THEN has_permission(FALSE, FALSE, "none", method)
    ELSE has_permission(TRUE, is_staff[u], role[u], method)

(***************************************************************************)
(* The category tree resolver.  A call either returns a value or raises:   *)
(* the code keeps no visited set and no depth guard of its own, so the     *)
(* only exception it can end with is the interpreter's RecursionError,     *)
(* raised when the call depth passes the recursion limit.                  *)
(***************************************************************************)
Return(v) == [raised |-> "", val |-> v]
Raise(e) == [raised |-> e, val |-> <<>>]

RECURSIVE full_path_at(_, _)
full_path_swapped(c, depth) ==
    IF depth > RecursionLimit THEN Raise("RecursionError")
    ELSE IF parent[c] # NoParent
    THEN LET up == full_path_at(parent[c], depth + 1)
         IN  IF up.raised # "" THEN up
             ELSE Return(name[c] \o " > " \o up.val)
    ELSE Return(name[c])

\* Category.full_path, at call depth `depth`
full_path_at(c, depth) ==
    IF depth > RecursionLimit THEN Raise("RecursionError")
    ELSE IF parent[c] # NoParent
    THEN LET up == full_path_at(parent[c], depth + 1)
         IN  IF up.raised # "" THEN up
             ELSE Return(up.val \o " > " \o name[c])
    ELSE Return(name[c])

full_path(c) == full_path_at(c, 1)

\* self.children.all(): the rows whose parent is c, in Meta.ordering
RECURSIVE SortByName(_)
SortByName(S) ==
    IF S = {} THEN <<>>
    ELSE LET first == CHOOSE d \in S : \A e \in S : NameRank(name[d]) <= NameRank(name[e])
         IN  <<first>> \o SortByName(S \ {first})

children_all(c) == SortByName({d \in cats : parent[d] = c})

RECURSIVE get_descendants_at(_, _), descendants_loop(_, _, _)

descendants_loop_flat(kids, acc, depth) ==
    IF kids = <<>> THEN Return(acc)
    ELSE descendants_loop(Tail(kids), Append(acc, Head(kids)), depth)

\* the for loop of Category.get_descendants over the remaining children
descendants_loop(kids, acc, depth) ==
    IF kids = <<>> THEN Return(acc)
    ELSE LET child == Head(kids)
             sub == get_descendants_at(child, depth + 1)
         IN  IF sub.raised # "" THEN sub
             ELSE descendants_loop(Tail(kids), Append(acc, child) \o sub.val, depth)

\* Category.get_descendants, at call depth `depth`
get_descendants_at(c, depth) ==
    IF depth > RecursionLimit THEN Raise("RecursionError")
    ELSE descendants_loop(children_all(c), <<>>, depth)

get_descendants(c) == get_descendants_at(c, 1)

(***************************************************************************)
(* The parent relation as a graph, computed without the resolver: the      *)
(* claims about the resolver are stated against these.                     *)
(***************************************************************************)
RECURSIVE UpClosure(_)
UpClosure(S) ==
    LET T == S \cup ({parent[d] : d \in S} \ {NoParent})
    IN  IF T = S THEN S ELSE UpClosure(T)

\* the proper ancestors of c: its parent, its parent's parent, ...
Ancestors(c) == IF parent[c] = NoParent THEN {} ELSE UpClosure({parent[c]})

OnCycle(c) == c \in Ancestors(c)
Acyclic == \A c \in cats : ~OnCycle(c)
LeadsIntoCycle(c) == \E a \in Ancestors(c) \cup {c} : OnCycle(a)

ProperDescendants(c) == {d \in cats : c \in Ancestors(d)}

\* In an acyclic forest a category's depth is the number of its ancestors, and
\* its ancestor at depth k is the one with k ancestors of its own.
Depth(c) == Cardinality(Ancestors(c))
AncestorAtDepth(c, k) == CHOOSE a \in Ancestors(c) \cup {c} : Depth(a) = k

RECURSIVE JoinFromRoot(_, _)
JoinFromRoot(c, k) ==
    IF k = 0 THEN name[AncestorAtDepth(c, 0)]
    ELSE JoinFromRoot(c, k - 1) \o " > " \o name[AncestorAtDepth(c, k)]

(***************************************************************************)
(* The delete collector (django.db.models.deletion.Collector) for the      *)
(* policies the models declare: Category.parent is on_delete=CASCADE,      *)
(* Product.category is on_delete=PROTECT.                                  *)
(***************************************************************************)
RECURSIVE CascadeClosure(_)
CascadeClosure(S) ==
    LET T == S \cup {d \in cats : parent[d] \in S}
    IN  IF T = S THEN S ELSE CascadeClosure(T)

CategoryCascadeSelfOnly(c) == {c}

\* Category.parent, on_delete=CASCADE: the rows deleted with c
CategoryCascade(c) == CascadeClosure({c})

ProtectedNone(collected) == {}

\* Product.category, on_delete=PROTECT: the product rows that block the delete
ProtectedProducts(collected) == {p \in ProdId : prodCat[p] \in collected}

Actors == UserId \cup {Anonymous}

(***************************************************************************)
(* The cache (django.core.cache.cache) and the signal receivers that       *)
(* delete from it (apps/core/signals.py).  The receivers are connected     *)
(* with @receiver and called by Signal.send, inside save() or delete(): an *)
(* exception of the cache backend leaves the receiver, the send and the    *)
(* save or delete that sent it.                                            *)
(***************************************************************************)
Key(kind, id) == <<kind, id>>
EmptyCache == [k \in {} |-> 0]

\* cache.delete / cache.delete_many
delete_many(c, keys) == [k \in (DOMAIN c) \ keys |-> c[k]]

\* invalidate_product_cache (post_save of Product): the keys deleted for an
\* instance of category c whose tags the receiver finds to be T
invalidate_product_cache(c, T) ==
    {Key("category_products", c), Key("featured_products", 0), Key("product_stats", 0)}
        \cup {Key("tag_products", t) : t \in T}

\* cleanup_product_cache (post_delete of Product)
cleanup_product_cache(c) ==
    {Key("category_products", c), Key("featured_products", 0), Key("product_stats", 0)}

invalidate_category_cache_no_parent(c, par) ==
    {Key("category_tree", 0), Key("root_categories", 0), Key("category", c)}

\* invalidate_category_cache (post_save of Category)
invalidate_category_cache(c, par) ==
    {Key("category_tree", 0), Key("root_categories", 0), Key("category", c)}
        \cup (IF par # NoParent THEN {Key("category", par)} ELSE {})

\* update_product_rating_cache (post_save of Review) and cleanup_review_cache
\* (post_delete of Review)
review_cache_keys(p) == {Key("product_rating", p), Key("product_reviews", p)}

\* what a receiver that deletes `keys` leaves in the cache, and what the
\* request that sent the signal answers instead of `status` when the backend
\* is down
Invalidated(keys) == IF cacheUp THEN delete_many(cache, keys) ELSE cache
Answer(status) == IF cacheUp THEN status ELSE "CacheError"

(***************************************************************************)
(* Category handlers (CategoryViewSet: ModelViewSet + CategorySerializer).  *)
(* The framework checks the view's permission class before it calls the    *)
(* handler (APIView.initial), so a handler runs only for a request some     *)
(* permitted caller sent, and a refused request is a step of its own.  The  *)
(* handlers here do not read the caller beyond that.                        *)
(***************************************************************************)
Response(op, status, id) == [op |-> op, status |-> status, id |-> id]

\* the callers IsAdminOrManagerOrReadOnly lets write, and those it refuses
WriteCallers == {u \in Actors : IsAdminOrManagerOrReadOnly(u, "POST")}
RefusedCallers == Actors \ WriteCallers

\* check_permissions refusing a write on a category or product endpoint
CatalogDenied(op) ==
    /\ RefusedCallers # {}
    /\ resp' = Response(op, "denied", 0)
    /\ UNCHANGED <<treeVars, tagVars, cache, offCatalog>>

FreeCat == CHOOSE c \in CatId \ cats : \A d \in CatId \ cats : c <= d

\* UniqueValidator on Category.name (unique=True)
NameTaken(n, except) == \E d \in cats \ {except} : name[d] = n

\* PrimaryKeyRelatedField for 'parent': the pk must be an existing row
ParentValid(par) == par = NoParent \/ par \in cats

\* CategorySerializer's validation of an update of c (ModelSerializer defaults:
\* nothing looks at the ancestors of the new parent)
CategoryUpdateValid(c, n, par) == ~NameTaken(n, c) /\ ParentValid(par)

\* POST /categories/: the insert, then post_save
CategoryCreate(n, par) ==
    /\ WriteCallers # {}
    /\ IF NameTaken(n, 0) \/ ~ParentValid(par)
       THEN /\ resp' = Response("category_create", "invalid", 0)
            /\ UNCHANGED <<treeVars, cache>>
       ELSE /\ cats # CatId
            /\ cats' = cats \cup {FreeCat}
            /\ parent' = [parent EXCEPT ![FreeCat] = par]
            /\ name' = [name EXCEPT ![FreeCat] = n]
            /\ cache' = Invalidated(invalidate_category_cache(FreeCat, par))
            /\ resp' = Response("category_create", Answer("created"), FreeCat)
            /\ UNCHANGED prodCat
    /\ UNCHANGED <<tagVars, offCatalog>>

\* PUT/PATCH /categories/{slug}/ (a PATCH sends the stored value of the field
\* it leaves out): the update, then post_save
CategoryUpdate(c, n, par) ==
    /\ WriteCallers # {}
    /\ IF c \notin cats
       THEN /\ resp' = Response("category_update", "not_found", c)
            /\ UNCHANGED <<treeVars, cache>>
       ELSE IF ~CategoryUpdateValid(c, n, par)
       THEN /\ resp' = Response("category_update", "invalid", c)
            /\ UNCHANGED <<treeVars, cache>>
       ELSE /\ parent' = [parent EXCEPT ![c] = par]
            /\ name' = [name EXCEPT ![c] = n]
            /\ cache' = Invalidated(invalidate_category_cache(c, par))
            /\ resp' = Response("category_update", Answer("ok"), c)
            /\ UNCHANGED <<cats, prodCat>>
    /\ UNCHANGED <<tagVars, offCatalog>>

\* DELETE /categories/{slug}/ (no receiver listens to the delete of a Category)
CategoryDelete(c) ==
    /\ WriteCallers # {}
    /\ IF c \notin cats
       THEN /\ resp' = Response("category_delete", "not_found", c)
            /\ UNCHANGED treeVars
       ELSE LET collected == CategoryCascade(c)
            IN  IF ProtectedProducts(collected) # {}
                THEN /\ resp' = Response("category_delete", "ProtectedError", c)
                     /\ UNCHANGED treeVars
                ELSE /\ cats' = cats \ collected
                     /\ parent' = [d \in CatId |-> IF d \in collected THEN NoParent ELSE parent[d]]
                     /\ name' = [d \in CatId |-> IF d \in collected THEN NoName ELSE name[d]]
                     /\ resp' = Response("category_delete", "deleted", c)
                     /\ UNCHANGED prodCat
    /\ UNCHANGED <<tagVars, cache, offCatalog>>

(***************************************************************************)
(* Product handlers (ProductViewSet + ProductSerializer): the category     *)
(* reference, the tags and the status.  ProductSerializer.create inserts   *)
(* the row (which sends post_save) and sets the tags afterwards;           *)
(* ProductSerializer.update saves the row (post_save) and sets the tags    *)
(* afterwards.  Setting the tags sends m2m_changed, which has no receiver. *)
(***************************************************************************)
\* a review row; is_approved defaults to True
NoReview == [product |-> 0, user |-> 0, helpful_votes |-> 0, is_approved |-> FALSE]
ReviewRow(p, u) == [product |-> p, user |-> u, helpful_votes |-> 0, is_approved |-> TRUE]
ReviewIds == {i \in RevId : reviews[i] # NoReview}

\* tag_ids absent from the request data
KeepTags == {0}

FreeProd == CHOOSE p \in ProdId : prodCat[p] = NoCat /\ \A q \in ProdId : prodCat[q] = NoCat => p <= q

\* ProductViewSet.get_queryset: a caller who is not staff finds published
\* products only
Sees(u, p) == is_staff[u] \/ published[p]

\* product.tags.set(tag_ids): the m2m rows, which need the tag rows
TagsSettable(tag_ids) == tag_ids \subseteq tags

\* POST /products/: category_id is a plain IntegerField, so an unknown id
\* reaches the insert and fails on the foreign key
ProductCreate(c, tag_ids, pub) ==
    /\ WriteCallers # {}
    /\ IF c \notin cats
       THEN /\ resp' = Response("product_create", "IntegrityError", 0)
            /\ UNCHANGED <<prodCat, prodTags, published, cache>>
       ELSE /\ \E p \in ProdId : prodCat[p] = NoCat
            /\ prodCat' = [prodCat EXCEPT ![FreeProd] = c]
            /\ published' = [published EXCEPT ![FreeProd] = pub]
            /\ cache' = Invalidated(invalidate_product_cache(c, {}))
            /\ IF ~cacheUp
               THEN /\ resp' = Response("product_create", "CacheError", FreeProd)
                    /\ UNCHANGED prodTags
               ELSE IF ~TagsSettable(tag_ids)
               THEN /\ resp' = Response("product_create", "IntegrityError", FreeProd)
                    /\ UNCHANGED prodTags
               ELSE /\ resp' = Response("product_create", "created", FreeProd)
                    /\ prodTags' = [prodTags EXCEPT ![FreeProd] = tag_ids]
    /\ UNCHANGED <<cats, parent, name, tags, offCatalog>>

\* PUT/PATCH /products/{slug}/: the receiver of the save reads the instance's
\* category (the new one) and its tags (still the old ones)
ProductUpdate(p, c, tag_ids, pub) ==
    /\ WriteCallers # {}
    /\ IF prodCat[p] = NoCat
       THEN /\ resp' = Response("product_update", "not_found", p)
            /\ UNCHANGED <<prodCat, prodTags, published, cache>>
       ELSE /\ {u \in WriteCallers : Sees(u, p)} # {}
            /\ IF c \notin cats
               THEN /\ resp' = Response("product_update", "IntegrityError", p)
                    /\ UNCHANGED <<prodCat, prodTags, published, cache>>
               ELSE /\ prodCat' = [prodCat EXCEPT ![p] = c]
                    /\ published' = [published EXCEPT ![p] = pub]
                    /\ cache' = Invalidated(invalidate_product_cache(c, prodTags[p]))
                    /\ IF ~cacheUp
                       THEN /\ resp' = Response("product_update", "CacheError", p)
                            /\ UNCHANGED prodTags
                       ELSE IF tag_ids = KeepTags
                       THEN /\ resp' = Response("product_update", "ok", p)
                            /\ UNCHANGED prodTags
                       ELSE IF ~TagsSettable(tag_ids)
                       THEN /\ resp' = Response("product_update", "IntegrityError", p)
                            /\ UNCHANGED prodTags
                       ELSE /\ resp' = Response("product_update", "ok", p)
                            /\ prodTags' = [prodTags EXCEPT ![p] = tag_ids]
    /\ UNCHANGED <<cats, parent, name, tags, offCatalog>>

\* a write on /products/{slug}/ by a caller who may write but does not see
\* the product
ProductHidden(op, p) ==
    /\ prodCat[p] # NoCat
    /\ {u \in WriteCallers : ~Sees(u, p)} # {}
    /\ resp' = Response(op, "not_found", p)
    /\ UNCHANGED <<treeVars, tagVars, cache, offCatalog>>

\* the review rows deleted with product p (Review.product, on_delete=CASCADE)
ReviewsOfProduct(p) == {i \in ReviewIds : reviews[i].product = p}

\* DELETE /products/{slug}/: the collector deletes the reviews, the m2m rows
\* and the row in one transaction and sends post_delete for each inside it
ProductDelete(p) ==
    /\ WriteCallers # {}
    /\ IF prodCat[p] = NoCat
       THEN /\ resp' = Response("product_delete", "not_found", p)
            /\ UNCHANGED <<prodCat, prodRow, prodTags, published, cache, reviews>>
       ELSE /\ {u \in WriteCallers : Sees(u, p)} # {}
            /\ IF ~cacheUp
               THEN /\ resp' = Response("product_delete", "CacheError", p)
                    /\ UNCHANGED <<prodCat, prodRow, prodTags, published, cache, reviews>>
               ELSE /\ prodCat' = [prodCat EXCEPT ![p] = NoCat]
                    /\ prodRow' = [prodRow EXCEPT ![p] = NoRow]
                    /\ prodTags' = [prodTags EXCEPT ![p] = {}]
                    /\ published' = [published EXCEPT ![p] = FALSE]
                    /\ reviews' = [i \in RevId |-> IF i \in ReviewsOfProduct(p) THEN NoReview ELSE reviews[i]]
                    /\ cache' = delete_many(cache,
                                     cleanup_product_cache(prodCat[p])
                                       \cup (IF ReviewsOfProduct(p) # {} THEN review_cache_keys(p) ELSE {}))
                    /\ resp' = Response("product_delete", "deleted", p)
    /\ UNCHANGED <<cats, parent, name, tags, stock, stockReq, baseline, reviewReq, votesBase,
                   cacheUp, cacheReq, userVars, request, accounts>>

(***************************************************************************)
(* Reviews.  add_review looks for a review of the product by the user and  *)
(* only then validates and inserts; mark_helpful loads the review, adds    *)
(* one to the instance's helpful_votes and saves that value.  Both are two *)
(* steps of a worker slot.  The table itself carries                       *)
(* unique_together = ['product', 'user'].                                  *)
(***************************************************************************)
\* what the review handlers leave alone
offReviews == <<treeVars, tagVars, stockVars, resp, envVars>>

IdleReviewReq == [pc |-> "idle", op |-> "none", user |-> 0, target |-> 0, inst |-> 0, status |-> ""]
PendingReviewReq(pc, op, u, t, v) ==
    [pc |-> pc, op |-> op, user |-> u, target |-> t, inst |-> v, status |-> ""]
AnsweredReviewReq(op, u, t, status) ==
    [pc |-> "done", op |-> op, user |-> u, target |-> t, inst |-> 0, status |-> status]

ReviewsOf(p, u) == {i \in ReviewIds : reviews[i].product = p /\ reviews[i].user = u}
FreeReview == CHOOSE i \in RevId \ ReviewIds : \A j \in RevId \ ReviewIds : i <= j

UniqueTogetherMissing(p, u) == TRUE

\* Review.Meta.unique_together: the insert of a second (product, user) row
\* fails on the unique index
UniqueTogetherAllows(p, u) == ReviewsOf(p, u) = {}

\* permissions.IsAuthenticated
IsAuthenticated(u) == u # Anonymous

\* INSERT of a review row (then post_save), as worker w's answer to request `op`
InsertReview(w, op, u, p) ==
    IF UniqueTogetherAllows(p, u)
    THEN /\ ReviewIds # RevId
         /\ reviews' = [reviews EXCEPT ![FreeReview] = ReviewRow(p, u)]
         /\ votesBase' = [votesBase EXCEPT ![FreeReview] = 0]
         /\ cache' = Invalidated(review_cache_keys(p))
         /\ reviewReq' = [reviewReq EXCEPT ![w] = AnsweredReviewReq(op, u, p, Answer("created"))]
    ELSE /\ reviewReq' = [reviewReq EXCEPT ![w] = AnsweredReviewReq(op, u, p, "IntegrityError")]
         /\ UNCHANGED <<reviews, votesBase, cache>>

\* a review request of an anonymous caller, refused by check_permissions
ReviewDenied(w, op) ==
    /\ reviewReq[w].pc = "idle"
    /\ {u \in Actors : ~IsAuthenticated(u)} # {}
    /\ reviewReq' = [reviewReq EXCEPT ![w] = AnsweredReviewReq(op, 0, 0, "denied")]
    /\ UNCHANGED <<offReviews, cache, reviews, votesBase>>

\* POST /products/{slug}/add_review/ up to and including the exists() query
AddReviewCheck(w, u, p) ==
    /\ reviewReq[w].pc = "idle"
    /\ IsAuthenticated(u)
    /\ IF prodCat[p] = NoCat
       THEN reviewReq' = [reviewReq EXCEPT ![w] = AnsweredReviewReq("add_review", 0, 0, "not_found")]
       ELSE IF ReviewsOf(p, u) # {}
       THEN reviewReq' = [reviewReq EXCEPT ![w] = AnsweredReviewReq("add_review", u, p, "already_reviewed")]
       ELSE reviewReq' = [reviewReq EXCEPT ![w] = PendingReviewReq("checked", "add_review", u, p, 0)]
    /\ UNCHANGED <<offReviews, cache, reviews, votesBase>>

\* the rest of add_review: serializer.is_valid(), then serializer.save(product=product)
AddReviewSave(w, valid) ==
    LET r == reviewReq[w]
    IN  /\ r.pc = "checked"
        /\ IF ~valid
           THEN /\ reviewReq' = [reviewReq EXCEPT ![w] = AnsweredReviewReq("add_review", r.user, r.target, "invalid")]
                /\ UNCHANGED <<reviews, votesBase, cache>>
           ELSE InsertReview(w, "add_review", r.user, r.target)
        /\ UNCHANGED offReviews

\* POST /reviews/: ReviewSerializer validation (the product must exist),
\* then perform_create saves with user=request.user
ReviewCreate(w, u, p, valid) ==
    /\ reviewReq[w].pc = "idle"
    /\ IsAuthenticated(u)
    /\ IF prodCat[p] = NoCat
       THEN /\ reviewReq' = [reviewReq EXCEPT ![w] = AnsweredReviewReq("review_create", 0, 0, "invalid")]
            /\ UNCHANGED <<reviews, votesBase, cache>>
       ELSE IF ~valid
       THEN /\ reviewReq' = [reviewReq EXCEPT ![w] = AnsweredReviewReq("review_create", u, p, "invalid")]
            /\ UNCHANGED <<reviews, votesBase, cache>>
       ELSE InsertReview(w, "review_create", u, p)
    /\ UNCHANGED offReviews

\* POST /reviews/{pk}/mark_helpful/ of an authenticated caller, up to the
\* point where the review is loaded (the handler keeps no record of who
\* voted, and neither does the slot)
MarkHelpfulLoad(w, i) ==
    /\ reviewReq[w].pc = "idle"
    /\ {u \in Actors : IsAuthenticated(u)} # {}
    /\ IF i \notin ReviewIds
       THEN reviewReq' = [reviewReq EXCEPT ![w] = AnsweredReviewReq("mark_helpful", 0, 0, "not_found")]
       ELSE /\ reviews[i].helpful_votes < MaxVotes
            /\ reviewReq' = [reviewReq EXCEPT ![w] =
                                 PendingReviewReq("loaded", "mark_helpful", 0, i, reviews[i].helpful_votes)]
    /\ UNCHANGED <<offReviews, cache, reviews, votesBase>>

\* review.helpful_votes += 1 on the loaded instance
mark_helpful_votes(w) == reviewReq[w].inst + 1

\* the rest of mark_helpful: the increment on the instance, then the save
\* (post_save)
MarkHelpfulSave(w) ==
    LET r == reviewReq[w]
    IN  /\ r.pc = "loaded"
        /\ reviews' = [reviews EXCEPT ![r.target].helpful_votes = mark_helpful_votes(w)]
        /\ cache' = Invalidated(review_cache_keys(reviews[r.target].product))
        /\ reviewReq' = [reviewReq EXCEPT ![w] = AnsweredReviewReq("mark_helpful", 0, r.target, Answer("ok"))]
        /\ UNCHANGED <<offReviews, votesBase>>

\* every worker has answered: the slots are free again
CollectReviewResponses ==
    /\ \A w \in ReviewWorker : reviewReq[w].pc = "done" \/ reviewReq[w].pc = "idle"
    /\ \E w \in ReviewWorker : reviewReq[w].pc = "done"
    /\ reviewReq' = [w \in ReviewWorker |-> IdleReviewReq]
    /\ votesBase' = [i \in RevId |-> reviews[i].helpful_votes]
    /\ UNCHANGED <<offReviews, cache, reviews>>

(***************************************************************************)
(* Stock.  Product.reduce_stock and ProductViewSet.update_stock work on a  *)
(* Product instance loaded earlier in the request: they compute the new    *)
(* quantity from the instance's field and save it with                     *)
(* save(update_fields=['stock_quantity']), an UPDATE that sets the column  *)
(* to that value and sends post_save.  Each worker slot holds one request: *)
(* the load is one step, the computation and the save the next.            *)
(***************************************************************************)
\* stock_quantity=10 in ProductModelTest.setUp
InitialStock == 10
NoQuantity == -1000
NoSave == -1
Quantities == {-5, 5, 10}
Operations == {"set", "add", "subtract", "multiply"}

\* what the stock handlers leave alone
offStock == <<treeVars, tagVars, resp, reviewVars, envVars>>

IdleStockReq ==
    [pc |-> "idle", op |-> "none", prod |-> 0, q |-> 0, inst |-> 0, status |-> "", saved |-> NoSave]
LoadedStockReq(op, p, q, s) ==
    [pc |-> "loaded", op |-> op, prod |-> p, q |-> q, inst |-> s, status |-> "", saved |-> NoSave]
RejectedStockReq(status) ==
    [pc |-> "done", op |-> "update_stock", prod |-> 0, q |-> 0, inst |-> 0, status |-> status, saved |-> NoSave]
DoneStockReq(r, status, saved) == [r EXCEPT !.pc = "done", !.status = status, !.saved = saved]

StockColumnAcceptsNegative(v) == v <= MaxStock

\* Product.stock_quantity is a PositiveIntegerField: the column carries the
\* check stock_quantity >= 0, and a write that breaks it fails (IntegrityError)
StockColumnAccepts(v) == v >= 0 /\ v <= MaxStock

reduce_stock_strict(s, q) ==
    IF s > q
    THEN [ret |-> TRUE, stock_quantity |-> s - q, save |-> TRUE]
    ELSE [ret |-> FALSE, stock_quantity |-> s, save |-> FALSE]

\* Product.reduce_stock(quantity) on an instance whose stock_quantity is s
reduce_stock(s, q) ==
    IF s >= q
    THEN [ret |-> TRUE, stock_quantity |-> s - q, save |-> TRUE]
    ELSE [ret |-> FALSE, stock_quantity |-> s, save |-> FALSE]

Max(a, b) == IF a >= b THEN a ELSE b

\* the branch on `operation` in update_stock, on an instance whose
\* stock_quantity is s
update_stock_value(operation, s, q) ==
    IF operation = "set" THEN Max(0, q)
    ELSE IF operation = "add" THEN s + q
    ELSE Max(0, s - q)

\* permissions.IsAdminUser
IsAdminUser(u) == u # Anonymous /\ is_staff[u]
StaffCallers == {u \in Actors : IsAdminUser(u)}

\* a caller loads the Product and is about to call reduce_stock(q) on it
ReduceStockLoad(w, p, q) ==
    /\ stockReq[w].pc = "idle"
    /\ prodCat[p] # NoCat
    /\ reduce_stock(stock[p], q).stock_quantity <= MaxStock
    /\ stockReq' = [stockReq EXCEPT ![w] = LoadedStockReq("reduce_stock", p, q, stock[p])]
    /\ UNCHANGED <<offStock, cache, stock, baseline>>

\* the body of reduce_stock on the loaded instance; the slot keeps what it
\* returned
ReduceStock(w) ==
    LET r == stockReq[w]
        out == reduce_stock(r.inst, r.q)
    IN  /\ r.pc = "loaded" /\ r.op = "reduce_stock"
        /\ IF out.save
           THEN /\ stock' = [stock EXCEPT ![r.prod] = out.stock_quantity]
                /\ cache' = Invalidated(invalidate_product_cache(prodCat[r.prod], prodTags[r.prod]))
                /\ stockReq' = [stockReq EXCEPT ![w] = DoneStockReq(r, Answer("True"), out.stock_quantity)]
           ELSE /\ UNCHANGED <<stock, cache>>
                /\ stockReq' = [stockReq EXCEPT ![w] = DoneStockReq(r, "False", NoSave)]
        /\ UNCHANGED <<offStock, baseline>>

\* POST /products/{slug}/update_stock/ refused by check_permissions
UpdateStockDenied(w) ==
    /\ stockReq[w].pc = "idle"
    /\ Actors \ StaffCallers # {}
    /\ stockReq' = [stockReq EXCEPT ![w] = RejectedStockReq("denied")]
    /\ UNCHANGED <<offStock, cache, stock, baseline>>

\* POST /products/{slug}/update_stock/ up to the point where the instance is
\* loaded and the request data is read; the slot keeps the response
UpdateStockLoad(w, p, operation, q) ==
    /\ stockReq[w].pc = "idle"
    /\ StaffCallers # {}
    /\ IF prodCat[p] = NoCat
       THEN stockReq' = [stockReq EXCEPT ![w] = RejectedStockReq("not_found")]
       ELSE IF q = NoQuantity \/ operation \notin {"set", "add", "subtract"}
       THEN stockReq' = [stockReq EXCEPT ![w] = RejectedStockReq("invalid")]
       ELSE /\ update_stock_value(operation, stock[p], q) <= MaxStock
            /\ stockReq' = [stockReq EXCEPT ![w] = LoadedStockReq(operation, p, q, stock[p])]
    /\ UNCHANGED <<offStock, cache, stock, baseline>>

\* the rest of update_stock: the new quantity from the instance, then the save
UpdateStock(w) ==
    LET r == stockReq[w]
        v == update_stock_value(r.op, r.inst, r.q)
    IN  /\ r.pc = "loaded" /\ r.op \in {"set", "add", "subtract"}
        /\ IF StockColumnAccepts(v)
           THEN /\ stock' = [stock EXCEPT ![r.prod] = v]
                /\ cache' = Invalidated(invalidate_product_cache(prodCat[r.prod], prodTags[r.prod]))
                /\ stockReq' = [stockReq EXCEPT ![w] = DoneStockReq(r, Answer("ok"), v)]
           ELSE /\ UNCHANGED <<stock, cache>>
                /\ stockReq' = [stockReq EXCEPT ![w] = DoneStockReq(r, "IntegrityError", NoSave)]
        /\ UNCHANGED <<offStock, baseline>>

\* every worker has answered: the slots are free again, and the stock as it
\* is now is what the next requests start from
CollectStockResponses ==
    /\ \A w \in StockWorker : stockReq[w].pc # "loaded"
    /\ \E w \in StockWorker : stockReq[w].pc = "done"
    /\ stockReq' = [w \in StockWorker |-> IdleStockReq]
    /\ baseline' = stock
    /\ UNCHANGED <<offStock, cache, stock>>

IdleRead == [pc |-> "idle", key |-> Key("none", 0), val |-> 0]
NoRequest ==
    [view |-> "none", method |-> "none", authenticated |-> FALSE, staff |-> FALSE,
     role |-> "none", allowed |-> FALSE]

\* an empty cache whose backend answers, no read in flight, and the accounts
\* of section Users, each with its profile
QuietStart ==
    /\ cache = EmptyCache
    /\ cacheUp = TRUE
    /\ cacheReq = [r \in Reader |-> IdleRead]
    /\ userRows = UserId
    /\ profiles = [u \in UserId |-> 1]
    /\ request = NoRequest
    /\ accounts = InitialAccounts
    /\ prodRow = [p \in ProdId |-> NoRow]

\* no tag rows; products without tags, in status draft
NoTags ==
    /\ tags = {}
    /\ prodTags = [p \in ProdId |-> {}]
    /\ published = [p \in ProdId |-> FALSE]

\* the store of ProductModelTest.setUp: category Electronics with one product
\* whose stock is 10
InitStock ==
    /\ cats = {1}
    /\ parent = [c \in CatId |-> NoParent]
    /\ name = [c \in CatId |-> IF c = 1 THEN "Electronics" ELSE NoName]
    /\ prodCat = [p \in ProdId |-> IF p = 1 THEN 1 ELSE NoCat]
    /\ resp = Response("none", "none", 0)
    /\ stock = [p \in ProdId |-> IF p = 1 THEN InitialStock ELSE 0]
    /\ stockReq = [w \in StockWorker |-> IdleStockReq]
    /\ baseline = stock
    /\ reviews = [i \in RevId |-> NoReview]
    /\ reviewReq = [w \in ReviewWorker |-> IdleReviewReq]
    /\ votesBase = [i \in RevId |-> 0]
    /\ NoTags
    /\ QuietStart

NextStock ==
    \/ \E w \in StockWorker, p \in ProdId, q \in Quantities : ReduceStockLoad(w, p, q)
    \/ \E w \in StockWorker : ReduceStock(w)
    \/ \E w \in StockWorker : UpdateStockDenied(w)
    \/ \E w \in StockWorker, p \in ProdId, operation \in Operations,
           q \in Quantities \cup {NoQuantity} : UpdateStockLoad(w, p, operation, q)
    \/ \E w \in StockWorker : UpdateStock(w)
    \/ CollectStockResponses

\* stock requests of concurrent workers on the products
SpecStock == InitStock /\ [][NextStock]_vars

(***************************************************************************)
(* The catalog specifications.                                             *)
(***************************************************************************)
Init ==
    /\ cats = {}
    /\ parent = [c \in CatId |-> NoParent]
    /\ name = [c \in CatId |-> NoName]
    /\ prodCat = [p \in ProdId |-> NoCat]
    /\ resp = Response("none", "none", 0)
    /\ stock = [p \in ProdId |-> 0]
    /\ stockReq = [w \in StockWorker |-> IdleStockReq]
    /\ baseline = [p \in ProdId |-> 0]
    /\ reviews = [i \in RevId |-> NoReview]
    /\ reviewReq = [w \in ReviewWorker |-> IdleReviewReq]
    /\ votesBase = [i \in RevId |-> 0]
    /\ NoTags
    /\ QuietStart

\* any category table the category handlers can leave behind (SpecTree reaches
\* every parent assignment, cycles included), each row named after its id, and
\* no product yet
InitCatalog ==
    /\ cats \in SUBSET CatId
    /\ parent \in [CatId -> CatId \cup {NoParent}]
    /\ \A c \in CatId : parent[c] \in cats \cup {NoParent}
    /\ \A c \in CatId \ cats : parent[c] = NoParent
    /\ name = [c \in CatId |-> IF c \in cats THEN NameSeq[c] ELSE NoName]
    /\ prodCat = [p \in ProdId |-> NoCat]
    /\ resp = Response("none", "none", 0)
    /\ stock = [p \in ProdId |-> 0]
    /\ stockReq = [w \in StockWorker |-> IdleStockReq]
    /\ baseline = [p \in ProdId |-> 0]
    /\ reviews = [i \in RevId |-> NoReview]
    /\ reviewReq = [w \in ReviewWorker |-> IdleReviewReq]
    /\ votesBase = [i \in RevId |-> 0]
    /\ NoTags
    /\ QuietStart

\* the category requests
NextTree ==
    \/ \E n \in Names, par \in CatId \cup {NoParent} : CategoryCreate(n, par)
    \/ \E c \in CatId, n \in Names : CategoryUpdate(c, n, parent[c])
    \/ \E c \in CatId, par \in CatId \cup {NoParent} : CategoryUpdate(c, name[c], par)
    \/ \E c \in CatId : CategoryDelete(c)
    \/ \E op \in {"category_create", "category_update", "category_delete"} : CatalogDenied(op)

\* category deletes, and the product requests that add and remove references
\* to a category
NextCatalog ==
    \/ \E c \in cats : CategoryDelete(c)
    \/ \E c \in cats : ProductCreate(c, {}, FALSE)
    \/ \E p \in ProdId : prodCat[p] # NoCat /\ ProductDelete(p)
    \/ CatalogDenied("category_delete")

\* the category handlers from an empty store: the stores the tree resolver
\* reads
SpecTree == Init /\ [][NextTree]_vars

\* category deletes and product handlers, from any stored category table
SpecCatalog == InitCatalog /\ [][NextCatalog]_vars

\* review submissions of concurrent workers, on the store of InitStock
NextSubmit ==
    \/ \E w \in ReviewWorker, op \in {"add_review", "review_create"} : ReviewDenied(w, op)
    \/ \E w \in ReviewWorker, u \in UserId, p \in ProdId : AddReviewCheck(w, u, p)
    \/ \E w \in ReviewWorker, valid \in BOOLEAN : AddReviewSave(w, valid)
    \/ \E w \in ReviewWorker, u \in UserId, p \in ProdId, valid \in BOOLEAN : ReviewCreate(w, u, p, valid)
    \/ CollectReviewResponses

SpecSubmit == InitStock /\ [][NextSubmit]_vars

\* mark_helpful requests of concurrent workers on the reviews of InitHelpful
NextHelpful ==
    \/ \E w \in ReviewWorker : ReviewDenied(w, "mark_helpful")
    \/ \E w \in ReviewWorker, i \in RevId : MarkHelpfulLoad(w, i)
    \/ \E w \in ReviewWorker : MarkHelpfulSave(w)
    \/ CollectReviewResponses

\* the store of InitStock after some users have reviewed product 1
InitHelpful ==
    /\ cats = {1}
    /\ parent = [c \in CatId |-> NoParent]
    /\ name = [c \in CatId |-> IF c = 1 THEN "Electronics" ELSE NoName]
    /\ prodCat = [p \in ProdId |-> IF p = 1 THEN 1 ELSE NoCat]
    /\ resp = Response("none", "none", 0)
    /\ stock = [p \in ProdId |-> IF p = 1 THEN InitialStock ELSE 0]
    /\ stockReq = [w \in StockWorker |-> IdleStockReq]
    /\ baseline = stock
    /\ \E n \in 0..MaxReviews :
          /\ n <= MaxUsers
          /\ reviews = [i \in RevId |-> IF i <= n THEN ReviewRow(1, i) ELSE NoReview]
    /\ reviewReq = [w \in ReviewWorker |-> IdleReviewReq]
    /\ votesBase = [i \in RevId |-> 0]
    /\ NoTags
    /\ QuietStart

SpecHelpful == InitHelpful /\ [][NextHelpful]_vars

(***************************************************************************)
(* Reads through the cache.  No code of the repository puts an entry into  *)
(* the cache; the reader is the one the specification describes:           *)
(* get_or_compute(key, compute_fn) returns the cached value if present,    *)
(* otherwise calls compute_fn, stores the result and returns it.  The      *)
(* aggregate under category_products is the number of published products   *)
(* of the category; the value under any other key is not looked at and is  *)
(* left at 0.                                                              *)
(***************************************************************************)
Compute(key) ==
    IF key[1] = "category_products"
    THEN Cardinality({p \in ProdId : prodCat[p] = key[2] /\ published[p]})
    ELSE 0

cache_set(c, key, v) == [k \in (DOMAIN c) \cup {key} |-> IF k = key THEN v ELSE c[k]]

\* what a read of `key` returns now
ReadValue(key) == IF key \in DOMAIN cache THEN cache[key] ELSE Compute(key)

\* get_or_compute on a miss, with no other request in between
get_or_compute(key) ==
    /\ cacheUp
    /\ key \notin DOMAIN cache
    /\ cache' = cache_set(cache, key, Compute(key))
    /\ UNCHANGED <<treeVars, tagVars, resp, stockVars, reviewVars, envVars>>

\* ProductAdmin.publish_products on the selected rows:
\* queryset.update(status='published'), one UPDATE statement that calls no
\* save() and sends no signal (make_featured and remove_featured do the same
\* with is_featured)
admin_publish_products(selected) ==
    /\ StaffCallers # {}
    /\ selected # {}
    /\ \A p \in selected : prodCat[p] # NoCat
    /\ published' = [p \in ProdId |-> IF p \in selected THEN TRUE ELSE published[p]]
    /\ resp' = Response("admin_publish_products", "ok", CHOOSE p \in selected : TRUE)
    /\ UNCHANGED <<treeVars, tags, prodTags, cache, offCatalog>>

ProductCacheKeys ==
    {Key("category_products", c) : c \in cats} \cup {Key("featured_products", 0), Key("product_stats", 0)}
        \cup {Key("tag_products", t) : t \in tags}

\* two categories and every tag, no product, an empty cache
InitProductCache ==
    /\ cats = {c \in CatId : c <= 2}
    /\ parent = [c \in CatId |-> NoParent]
    /\ name = [c \in CatId |-> IF c <= 2 THEN NameSeq[c] ELSE NoName]
    /\ prodCat = [p \in ProdId |-> NoCat]
    /\ resp = Response("none", "none", 0)
    /\ stock = [p \in ProdId |-> 0]
    /\ stockReq = [w \in StockWorker |-> IdleStockReq]
    /\ baseline = [p \in ProdId |-> 0]
    /\ reviews = [i \in RevId |-> NoReview]
    /\ reviewReq = [w \in ReviewWorker |-> IdleReviewReq]
    /\ votesBase = [i \in RevId |-> 0]
    /\ tags = TagId
    /\ prodTags = [p \in ProdId |-> {}]
    /\ published = [p \in ProdId |-> FALSE]
    /\ QuietStart

\* product writes, and reads of the product aggregates through the cache
NextProductCache ==
    \/ \E c \in CatId, tag_ids \in SUBSET TagId, pub \in BOOLEAN : ProductCreate(c, tag_ids, pub)
    \/ \E p \in ProdId, c \in CatId, tag_ids \in (SUBSET TagId) \cup {KeepTags}, pub \in BOOLEAN :
           ProductUpdate(p, c, tag_ids, pub)
    \/ \E p \in ProdId : ProductDelete(p)
    \/ \E op \in {"product_update", "product_delete"}, p \in ProdId : ProductHidden(op, p)
    \/ \E op \in {"product_create", "product_update", "product_delete"} : CatalogDenied(op)
    \/ \E selected \in SUBSET ProdId : admin_publish_products(selected)
    \/ \E key \in ProductCacheKeys : get_or_compute(key)

SpecProductCache == InitProductCache /\ [][NextProductCache]_vars

CategoryCacheKeys ==
    {Key("category_tree", 0), Key("root_categories", 0)} \cup {Key("category", c) : c \in cats}

\* category writes (each new row named after its id), and reads of the
\* category aggregates through the cache
NextCategoryCache ==
    \/ \E par \in CatId \cup {NoParent} : cats # CatId /\ CategoryCreate(NameSeq[FreeCat], par)
    \/ \E c \in CatId, par \in CatId \cup {NoParent} : CategoryUpdate(c, name[c], par)
    \/ \E op \in {"category_create", "category_update"} : CatalogDenied(op)
    \/ \E key \in CategoryCacheKeys : get_or_compute(key)

SpecCategoryCache == Init /\ [][NextCategoryCache]_vars

(***************************************************************************)
(* Moderation of reviews.  approve and reject (IsAdminUser) set            *)
(* is_approved on the loaded review and save that field, which sends       *)
(* post_save; DELETE /reviews/{pk}/ sends post_delete.  The admin actions  *)
(* approve_reviews and reject_reviews run queryset.update(), one UPDATE    *)
(* statement that calls no save() and sends no signal.                     *)
(***************************************************************************)
\* what the moderation handlers leave alone
offModeration == <<treeVars, tagVars, stockVars, reviewReq, votesBase, envVars>>

\* POST /reviews/{pk}/approve/ (approved) and /reject/
ReviewModerate(i, approved) ==
    LET op == IF approved THEN "review_approve" ELSE "review_reject"
    IN  /\ StaffCallers # {}
        /\ IF reviews[i] = NoReview
           THEN /\ resp' = Response(op, "not_found", i)
                /\ UNCHANGED <<reviews, cache>>
           ELSE /\ reviews' = [reviews EXCEPT ![i].is_approved = approved]
                /\ cache' = Invalidated(review_cache_keys(reviews[i].product))
                /\ resp' = Response(op, Answer("ok"), i)
        /\ UNCHANGED offModeration

\* approve or reject asked by a caller who is not staff
ReviewModerateDenied(approved) ==
    /\ Actors \ StaffCallers # {}
    /\ resp' = Response(IF approved THEN "review_approve" ELSE "review_reject", "denied", 0)
    /\ UNCHANGED <<reviews, cache, offModeration>>

\* ReviewViewSet.get_queryset: a caller who is not staff finds the approved
\* reviews and their own
SeesReview(u, i) == is_staff[u] \/ reviews[i].is_approved \/ reviews[i].user = u

\* DELETE /reviews/{pk}/ by caller u (IsAuthenticated): post_delete is sent
\* inside the transaction of the delete
ReviewDestroy(u, i) ==
    /\ IsAuthenticated(u)
    /\ IF reviews[i] = NoReview \/ ~SeesReview(u, i)
       THEN /\ resp' = Response("review_delete", "not_found", i)
            /\ UNCHANGED <<reviews, cache>>
       ELSE IF ~cacheUp
       THEN /\ resp' = Response("review_delete", "CacheError", i)
            /\ UNCHANGED <<reviews, cache>>
       ELSE /\ reviews' = [reviews EXCEPT ![i] = NoReview]
            /\ cache' = delete_many(cache, review_cache_keys(reviews[i].product))
            /\ resp' = Response("review_delete", "deleted", i)
    /\ UNCHANGED offModeration

\* ReviewAdmin.approve_reviews (approved) and reject_reviews on the selected
\* rows: queryset.update(is_approved=...)
admin_update_reviews(selected, approved) ==
    /\ StaffCallers # {}
    /\ selected # {}
    /\ selected \subseteq ReviewIds
    /\ reviews' = [i \in RevId |-> IF i \in selected
                                   THEN [reviews[i] EXCEPT !.is_approved = approved]
                                   ELSE reviews[i]]
    /\ resp' = Response(IF approved THEN "admin_approve_reviews" ELSE "admin_reject_reviews",
                        "ok", CHOOSE i \in selected : TRUE)
    /\ UNCHANGED <<cache, offModeration>>

ReviewCacheKeys == UNION {review_cache_keys(p) : p \in {q \in ProdId : prodCat[q] # NoCat}}

\* moderation of the reviews of InitHelpful, and reads of the review
\* aggregates through the cache
NextReviewCache ==
    \/ \E i \in RevId, approved \in BOOLEAN : ReviewModerate(i, approved)
    \/ \E approved \in BOOLEAN : ReviewModerateDenied(approved)
    \/ \E u \in UserId, i \in RevId : ReviewDestroy(u, i)
    \/ \E selected \in SUBSET RevId, approved \in BOOLEAN : admin_update_reviews(selected, approved)
    \/ \E key \in ReviewCacheKeys : get_or_compute(key)

SpecReviewCache == InitHelpful /\ [][NextReviewCache]_vars

(***************************************************************************)
(* Users and their profiles (apps/users).  UserProfile.user is a           *)
(* OneToOneField (unique, on_delete=CASCADE); profiles[u] is the number of *)
(* profile rows of user u.  post_save of User has two receivers,           *)
(* create_user_profile and save_user_profile; pre_delete has               *)
(* cleanup_user_data.                                                      *)
(***************************************************************************)
\* what the user handlers leave alone
offUsers == <<treeVars, tagVars, stockVars, reviewVars, cacheUp, cacheReq, request, rowVars>>

FreeUser == CHOOSE u \in UserId \ userRows : \A v \in UserId \ userRows : u <= v

get_or_create_plain_create(n) == n + 1

\* UserProfile.objects.get_or_create(user=...): the number of rows of the
\* user afterwards, when there were n
get_or_create(n) == IF n = 0 THEN 1 ELSE n

\* create_user_profile (post_save of User): the profile rows of the instance
\* afterwards, and the key it deletes
create_user_profile(n, created) == IF created THEN get_or_create(n) ELSE n
user_created_keys == {Key("user_stats", 0)}

\* cleanup_user_data (pre_delete of User)
cleanup_user_data(u) ==
    {Key("user_profile", u), Key("user_permissions", u), Key("user_stats", 0)}

\* RegisterSerializer.create / UserSerializer.create: create_user (the insert,
\* post_save with created=True), then set_password and save() again
UserCreate ==
    /\ userRows # UserId
    /\ userRows' = userRows \cup {FreeUser}
    /\ profiles' = [profiles EXCEPT ![FreeUser] =
                       create_user_profile(create_user_profile(@, TRUE), FALSE)]
    /\ cache' = Invalidated(user_created_keys)
    /\ resp' = Response("user_create", Answer("created"), FreeUser)
    /\ UNCHANGED offUsers

\* a save() of an existing user (UserSerializer.update, change_password):
\* post_save with created=False; save_user_profile saves the profile it finds
UserSave(u) ==
    /\ u \in userRows
    /\ profiles' = [profiles EXCEPT ![u] = create_user_profile(@, FALSE)]
    /\ resp' = Response("user_save", "ok", u)
    /\ UNCHANGED <<userRows, cache, offUsers>>

\* GET/PATCH /users/{pk}/profile/ and PATCH /users/update_profile/
ProfileRequest(u) ==
    /\ u \in userRows
    /\ profiles' = [profiles EXCEPT ![u] = get_or_create(@)]
    /\ resp' = Response("profile", "ok", u)
    /\ UNCHANGED <<userRows, cache, offUsers>>

\* the product rows that keep user u from being deleted
\* (Product.created_by, on_delete=PROTECT)
created_products(u) == {p \in ProdId : prodCat[p] # NoCat /\ prodRow[p].created_by = u}

\* a user delete that leaves the reviews of the user in place
ReviewsOfUserKept(u) == {}

\* the review rows deleted with user u (Review.user, on_delete=CASCADE)
ReviewsOfUser(u) == {i \in ReviewIds : reviews[i].user = u}

\* DELETE /users/{pk}/: the collector finds what the delete reaches and
\* raises ProtectedError if a product is among it; else pre_delete, then the
\* reviews (post_delete for each), the profile and the row
UserDelete(u) ==
    /\ u \in userRows
    /\ IF created_products(u) # {}
       THEN /\ resp' = Response("user_delete", "ProtectedError", u)
            /\ UNCHANGED <<userRows, profiles, cache, reviews>>
       ELSE IF ~cacheUp
       THEN /\ resp' = Response("user_delete", "CacheError", u)
            /\ UNCHANGED <<userRows, profiles, cache, reviews>>
       ELSE /\ userRows' = userRows \ {u}
            /\ profiles' = [profiles EXCEPT ![u] = 0]
            /\ reviews' = [i \in RevId |-> IF i \in ReviewsOfUser(u) THEN NoReview ELSE reviews[i]]
            /\ cache' = delete_many(cache,
                             cleanup_user_data(u)
                               \cup UNION {review_cache_keys(reviews[i].product) : i \in ReviewsOfUser(u)})
            /\ resp' = Response("user_delete", "deleted", u)
    /\ UNCHANGED <<treeVars, tagVars, stockVars, reviewReq, votesBase, cacheUp, cacheReq, request, rowVars>>

\* no account yet
InitUsers ==
    /\ cats = {}
    /\ parent = [c \in CatId |-> NoParent]
    /\ name = [c \in CatId |-> NoName]
    /\ prodCat = [p \in ProdId |-> NoCat]
    /\ resp = Response("none", "none", 0)
    /\ stock = [p \in ProdId |-> 0]
    /\ stockReq = [w \in StockWorker |-> IdleStockReq]
    /\ baseline = [p \in ProdId |-> 0]
    /\ reviews = [i \in RevId |-> NoReview]
    /\ reviewReq = [w \in ReviewWorker |-> IdleReviewReq]
    /\ votesBase = [i \in RevId |-> 0]
    /\ NoTags
    /\ cache = EmptyCache
    /\ cacheUp = TRUE
    /\ cacheReq = [r \in Reader |-> IdleRead]
    /\ userRows = {}
    /\ profiles = [u \in UserId |-> 0]
    /\ request = NoRequest
    /\ accounts = InitialAccounts
    /\ prodRow = [p \in ProdId |-> NoRow]

\* the user requests, and reads of the user aggregates through the cache
NextUsers ==
    \/ UserCreate
    \/ \E u \in UserId : UserSave(u)
    \/ \E u \in UserId : ProfileRequest(u)
    \/ \E u \in UserId : UserDelete(u)
    \/ \E key \in UNION {cleanup_user_data(u) : u \in userRows} : get_or_compute(key)

SpecUsers == InitUsers /\ [][NextUsers]_vars

(***************************************************************************)
(* Requests that overlap on the cache.  A slot of cacheReq holds one       *)
(* request in flight.  A read through get_or_compute is three steps: it    *)
(* misses, it computes from the store, it stores what it computed.  A      *)
(* save() of a product is two: the row is written (and committed, no       *)
(* transaction is opened around save()), and then post_save runs           *)
(* invalidate_product_cache.                                               *)
(***************************************************************************)
\* what the overlapping requests leave alone
offRace == <<treeVars, tags, prodTags, resp, stockVars, reviewVars, cacheUp, userVars, request, rowVars>>

ReadMiss(r, key) ==
    /\ cacheReq[r] = IdleRead
    /\ cacheUp
    /\ key \notin DOMAIN cache
    /\ cacheReq' = [cacheReq EXCEPT ![r] = [pc |-> "miss", key |-> key, val |-> 0]]
    /\ UNCHANGED <<published, cache, offRace>>

ReadCompute(r) ==
    /\ cacheReq[r].pc = "miss"
    /\ cacheReq' = [cacheReq EXCEPT ![r] =
                       [pc |-> "computed", key |-> cacheReq[r].key, val |-> Compute(cacheReq[r].key)]]
    /\ UNCHANGED <<published, cache, offRace>>

ReadStore(r) ==
    /\ cacheReq[r].pc = "computed"
    /\ cache' = cache_set(cache, cacheReq[r].key, cacheReq[r].val)
    /\ cacheReq' = [cacheReq EXCEPT ![r] = IdleRead]
    /\ UNCHANGED <<published, offRace>>

\* Model.save() of product p with a new status: the UPDATE
ProductSaveRow(r, p, pub) ==
    /\ cacheReq[r] = IdleRead
    /\ prodCat[p] # NoCat
    /\ published' = [published EXCEPT ![p] = pub]
    /\ cacheReq' = [cacheReq EXCEPT ![r] = [pc |-> "saved", key |-> Key("product", p), val |-> 0]]
    /\ UNCHANGED <<cache, offRace>>

\* Model.save(), continued: post_save
ProductSaveSignal(r) ==
    /\ cacheReq[r].pc = "saved"
    /\ LET p == cacheReq[r].key[2]
       IN  cache' = Invalidated(invalidate_product_cache(prodCat[p], prodTags[p]))
    /\ cacheReq' = [cacheReq EXCEPT ![r] = IdleRead]
    /\ UNCHANGED <<published, offRace>>

\* reads of the product aggregates overlapping with saves of the products of
\* InitStock
NextRace ==
    \/ \E r \in Reader, key \in ProductCacheKeys : ReadMiss(r, key)
    \/ \E r \in Reader : ReadCompute(r)
    \/ \E r \in Reader : ReadStore(r)
    \/ \E r \in Reader, p \in ProdId, pub \in BOOLEAN : ProductSaveRow(r, p, pub)
    \/ \E r \in Reader : ProductSaveSignal(r)

SpecRace == InitStock /\ [][NextRace]_vars

(***************************************************************************)
(* Writes while the cache backend is down.  cache.delete and               *)
(* cache.delete_many raise what the backend's client raises; no receiver   *)
(* catches it and Signal.send does not either, so the exception leaves     *)
(* save() after the row was written, and leaves delete() inside the        *)
(* collector's transaction, which rolls the delete back.                   *)
(***************************************************************************)
\* the cache backend goes down, or comes back
CacheBackend(up) ==
    /\ cacheUp # up
    /\ cacheUp' = up
    /\ UNCHANGED <<treeVars, tagVars, resp, stockVars, reviewVars, cache, cacheReq, userVars, request, rowVars>>

\* category and product writes while the backend comes and goes
NextOutage ==
    \/ \E up \in BOOLEAN : CacheBackend(up)
    \/ \E par \in CatId \cup {NoParent} : cats # CatId /\ CategoryCreate(NameSeq[FreeCat], par)
    \/ \E c \in CatId, par \in CatId \cup {NoParent} : CategoryUpdate(c, name[c], par)
    \/ \E c \in CatId, pub \in BOOLEAN : ProductCreate(c, {}, pub)
    \/ \E p \in ProdId, c \in CatId, pub \in BOOLEAN : ProductUpdate(p, c, KeepTags, pub)
    \/ \E p \in ProdId : ProductDelete(p)

SpecOutage == Init /\ [][NextOutage]_vars

(***************************************************************************)
(* Product counts of a category.                                           *)
(***************************************************************************)
Range(f) == {f[i] : i \in DOMAIN f}

\* CategoryViewSet.products: the published products whose category is the
\* category or one of get_descendants(); the number of rows in the answer
category_products(c) ==
    LET descendant_categories == get_descendants(c)
    IN  IF descendant_categories.raised # "" THEN descendant_categories
        ELSE LET category_ids == {c} \cup Range(descendant_categories.val)
             IN  Return(Cardinality({p \in ProdId : prodCat[p] \in category_ids /\ published[p]}))

\* CategorySerializer.get_product_count
get_product_count(c) == Cardinality({p \in ProdId : prodCat[p] = c /\ published[p]})

\* the category requests with each new row named after its id, and the
\* product requests
NextCounts ==
    \/ \E par \in CatId \cup {NoParent} : cats # CatId /\ CategoryCreate(NameSeq[FreeCat], par)
    \/ \E c \in CatId, par \in CatId \cup {NoParent} : CategoryUpdate(c, name[c], par)
    \/ \E c \in CatId, pub \in BOOLEAN : ProductCreate(c, {}, pub)
    \/ \E p \in ProdId, c \in CatId, pub \in BOOLEAN : ProductUpdate(p, c, KeepTags, pub)
    \/ \E p \in ProdId : ProductDelete(p)

SpecCounts == Init /\ [][NextCounts]_vars

(***************************************************************************)
(* Access to the category, product and tag endpoints.  The three viewsets  *)
(* carry permission_classes = [IsAdminOrManagerOrReadOnly]; APIView.initial *)
(* runs check_permissions on the request before the handler of its method. *)
(* `request` is the request checked last, with the attributes of its user  *)
(* and the decision.  The handlers run for a request that was let through. *)
(***************************************************************************)
Roles == {"admin", "manager", "user"}
Methods == SAFE_METHODS \cup {"POST", "PUT", "PATCH", "DELETE"}
CatalogViews == {"category", "product", "tag"}

\* request.user: AnonymousUser, or an account with is_staff and role
Principals ==
    {[authenticated |-> FALSE, staff |-> FALSE, role |-> "none"]}
        \cup {[authenticated |-> TRUE, staff |-> st, role |-> r] : st \in BOOLEAN, r \in Roles}

\* APIView.check_permissions for a request of `user` on `view`
CheckPermissions(view, method, user) ==
    /\ request' = [view |-> view, method |-> method,
                   authenticated |-> user.authenticated, staff |-> user.staff, role |-> user.role,
                   allowed |-> has_permission(user.authenticated, user.staff, user.role, method)]
    /\ UNCHANGED <<treeVars, tagVars, resp, stockVars, reviewVars, cache, cacheUp, cacheReq, userVars, rowVars>>

\* the request checked last was let through to the handler of `methods` on `view`
Dispatched(view, methods) ==
    /\ request.view = view
    /\ request.method \in methods
    /\ request.allowed

\* list and retrieve (GET, HEAD) and the metadata of OPTIONS
CatalogRead(view) ==
    /\ resp' = Response(view \o "_read", "ok", 0)
    /\ UNCHANGED <<treeVars, tagVars, cache, offCatalog>>

FreeTag == CHOOSE t \in TagId \ tags : \A v \in TagId \ tags : t <= v

\* POST /tags/
TagCreate ==
    /\ tags # TagId
    /\ tags' = tags \cup {FreeTag}
    /\ resp' = Response("tag_create", "created", FreeTag)
    /\ UNCHANGED <<treeVars, prodTags, published, cache, offCatalog>>

\* PUT/PATCH /tags/{slug}/ (name, description and color are not part of the
\* state)
TagUpdate(t) ==
    /\ resp' = Response("tag_update", IF t \in tags THEN "ok" ELSE "not_found", t)
    /\ UNCHANGED <<treeVars, tagVars, cache, offCatalog>>

\* DELETE /tags/{slug}/: the row and its rows in Product.tags
TagDelete(t) ==
    /\ IF t \in tags
       THEN /\ tags' = tags \ {t}
            /\ prodTags' = [p \in ProdId |-> prodTags[p] \ {t}]
            /\ resp' = Response("tag_delete", "deleted", t)
       ELSE /\ resp' = Response("tag_delete", "not_found", t)
            /\ UNCHANGED <<tags, prodTags>>
    /\ UNCHANGED <<treeVars, published, cache, offCatalog>>

\* requests of every kind of user on the three viewsets, on tables of at most
\* one row each
NextAccess ==
    \/ \E view \in CatalogViews, method \in Methods, user \in Principals :
           CheckPermissions(view, method, user)
    \/ \E view \in CatalogViews : Dispatched(view, SAFE_METHODS) /\ CatalogRead(view)
    \/ Dispatched("category", {"POST"}) /\ cats = {} /\ CategoryCreate(NameSeq[FreeCat], NoParent)
    \/ \E c \in cats, par \in cats \cup {NoParent} :
           Dispatched("category", {"PUT", "PATCH"}) /\ CategoryUpdate(c, name[c], par)
    \/ \E c \in cats : Dispatched("category", {"DELETE"}) /\ CategoryDelete(c)
    \/ \E c \in cats, pub \in BOOLEAN :
           /\ Dispatched("product", {"POST"})
           /\ \A p \in ProdId : prodCat[p] = NoCat
           /\ ProductCreate(c, {}, pub)
    \/ \E p \in ProdId, tag_ids \in SUBSET tags :
           Dispatched("product", {"PUT", "PATCH"}) /\ ProductUpdate(p, prodCat[p], tag_ids, TRUE)
    \/ \E p \in ProdId : Dispatched("product", {"DELETE"}) /\ ProductDelete(p)
    \/ Dispatched("tag", {"POST"}) /\ tags = {} /\ TagCreate
    \/ \E t \in tags : Dispatched("tag", {"PUT", "PATCH"}) /\ TagUpdate(t)
    \/ \E t \in tags : Dispatched("tag", {"DELETE"}) /\ TagDelete(t)

SpecAccess == Init /\ [][NextAccess]_vars

(***************************************************************************)
(* Updates of a review through PUT/PATCH /reviews/{pk}/.  ReviewViewSet    *)
(* asks for IsAuthenticated only, get_object looks the review up in        *)
(* get_queryset, and ReviewSerializer leaves is_approved writable.  The    *)
(* request is one step of a worker slot, which keeps the caller.           *)
(***************************************************************************)
\* PUT/PATCH /reviews/{pk}/ by caller u with is_approved in the data (a PATCH
\* that leaves it out sends the stored value): the save, then post_save
ReviewUpdate(w, u, i, approved) ==
    /\ reviewReq[w].pc = "idle"
    /\ IsAuthenticated(u)
    /\ IF i \notin ReviewIds \/ ~SeesReview(u, i)
       THEN /\ reviewReq' = [reviewReq EXCEPT ![w] = AnsweredReviewReq("review_update", u, i, "not_found")]
            /\ UNCHANGED <<reviews, cache>>
       ELSE /\ reviews' = [reviews EXCEPT ![i].is_approved = approved]
            /\ cache' = Invalidated(review_cache_keys(reviews[i].product))
            /\ reviewReq' = [reviewReq EXCEPT ![w] = AnsweredReviewReq("review_update", u, i, Answer("ok"))]
    /\ UNCHANGED <<offReviews, votesBase>>

\* updates and moderation of the reviews of InitHelpful
NextReviewWrites ==
    \/ \E w \in ReviewWorker : ReviewDenied(w, "review_update")
    \/ \E w \in ReviewWorker, u \in UserId, i \in RevId, approved \in BOOLEAN : ReviewUpdate(w, u, i, approved)
    \/ \E i \in RevId, approved \in BOOLEAN : ReviewModerate(i, approved)
    \/ \E approved \in BOOLEAN : ReviewModerateDenied(approved)
    \/ CollectReviewResponses

SpecReviewWrites == InitHelpful /\ [][NextReviewWrites]_vars

(***************************************************************************)
(* The endpoints that return products, as the sets of product rows they    *)
(* serialize for a caller who is staff or not.  is_featured is not part of *)
(* the state: `featured_rows` takes the rows that carry it.                *)
(***************************************************************************)
ProductRows == {p \in ProdId : prodCat[p] # NoCat}

product_queryset_unfiltered(staff) == ProductRows

\* ProductViewSet.get_queryset
product_queryset(staff) == {p \in ProductRows : staff \/ published[p]}

\* GET /products/ and GET /products/{slug}/
product_list(staff) == product_queryset(staff)
product_detail(staff, p) == {p} \cap product_queryset(staff)

\* GET /products/featured/
featured(staff, featured_rows) ==
    {p \in product_queryset(staff) : p \in featured_rows /\ published[p]}

\* GET /categories/{slug}/products/: the rows of the answer
category_product_rows(c) ==
    LET descendant_categories == get_descendants(c)
    IN  IF descendant_categories.raised # "" THEN {}
        ELSE LET category_ids == {c} \cup Range(descendant_categories.val)
             IN  {p \in ProductRows : prodCat[p] \in category_ids /\ published[p]}

\* GET /tags/{slug}/products/
tag_product_rows(t) == {p \in ProductRows : t \in prodTags[p] /\ published[p]}

\* category Electronics with subcategory Phones, every tag, no product
InitListing ==
    /\ cats = {c \in CatId : c <= 2}
    /\ parent = [c \in CatId |-> IF c = 2 THEN 1 ELSE NoParent]
    /\ name = [c \in CatId |-> IF c = 1 THEN "Electronics" ELSE IF c = 2 THEN "Phones" ELSE NoName]
    /\ prodCat = [p \in ProdId |-> NoCat]
    /\ resp = Response("none", "none", 0)
    /\ stock = [p \in ProdId |-> 0]
    /\ stockReq = [w \in StockWorker |-> IdleStockReq]
    /\ baseline = [p \in ProdId |-> 0]
    /\ reviews = [i \in RevId |-> NoReview]
    /\ reviewReq = [w \in ReviewWorker |-> IdleReviewReq]
    /\ votesBase = [i \in RevId |-> 0]
    /\ tags = TagId
    /\ prodTags = [p \in ProdId |-> {}]
    /\ published = [p \in ProdId |-> FALSE]
    /\ QuietStart

\* the requests that create products and change their status
NextListing ==
    \/ \E c \in cats, tag_ids \in SUBSET TagId, pub \in BOOLEAN : ProductCreate(c, tag_ids, pub)
    \/ \E p \in ProdId, pub \in BOOLEAN : ProductUpdate(p, prodCat[p], KeepTags, pub)
    \/ \E p \in ProdId : ProductDelete(p)
    \/ \E selected \in SUBSET ProdId : admin_publish_products(selected)

SpecListing == InitListing /\ [][NextListing]_vars

(***************************************************************************)
(* The user endpoints.  UserViewSet.get_permissions chooses the permission *)
(* class by action and so replaces the permission_classes of the @action   *)
(* decorators.  IsOwnerOrAdmin defines has_object_permission only: its     *)
(* has_permission is BasePermission's, which lets every request through.   *)
(* Here `request` holds the action in its field method and the stored      *)
(* role and is_staff of the caller when the request arrived.               *)
(***************************************************************************)
\* what the user endpoints leave alone
offUserApi == <<treeVars, tagVars, stockVars, reviewVars, cacheUp, cacheReq, prodRow>>

UserActions ==
    {"list", "create", "retrieve", "update", "partial_update", "destroy", "register",
     "profile", "me", "update_profile", "statistics", "change_password"}

\* UserViewSet.get_permissions
get_permissions(action) ==
    IF action = "register" THEN "AllowAny"
    ELSE IF action \in {"retrieve", "update", "partial_update", "update_profile"} THEN "IsOwnerOrAdmin"
    ELSE "IsAuthenticated"

\* has_permission of the class chosen, for caller u
class_has_permission(cls, u) == IF cls = "IsAuthenticated" THEN u # Anonymous ELSE TRUE

\* IsOwnerOrAdmin.has_object_permission for an authenticated caller
IsOwnerOrAdmin(u, method, obj) ==
    \/ method \in SAFE_METHODS
    \/ obj = u
    \/ accounts[u].is_staff
    \/ accounts[u].role = "admin"

\* UserViewSet.get_queryset for an authenticated caller (every row is active)
user_queryset(u, action) ==
    IF ~accounts[u].is_staff /\ accounts[u].role # "admin"
          /\ action \in {"retrieve", "update", "partial_update"}
    THEN userRows \cap {u}
    ELSE userRows

\* the request of caller u as check_permissions saw it
UserRequest(action, u, allowed) ==
    [view |-> "user", method |-> action, authenticated |-> u # Anonymous,
     staff |-> IF u = Anonymous THEN FALSE ELSE accounts[u].is_staff,
     role |-> IF u = Anonymous THEN "none" ELSE accounts[u].role,
     allowed |-> allowed]

\* check_permissions refuses: 401 NotAuthenticated
UserRefused(u, action) ==
    /\ ~class_has_permission(get_permissions(action), u)
    /\ request' = UserRequest(action, u, FALSE)
    /\ resp' = Response("user_" \o action, "not_authenticated", 0)
    /\ UNCHANGED <<userVars, accounts, cache, offUserApi>>

\* a request without credentials that check_permissions lets through to a
\* handler other than register: get_object runs get_queryset, which calls
\* is_admin() on AnonymousUser; update_profile hands AnonymousUser to
\* get_or_create.  The exception is not an APIException: a 500.
UserAnonymousThrough(action) ==
    /\ action # "register"
    /\ class_has_permission(get_permissions(action), Anonymous)
    /\ request' = UserRequest(action, Anonymous, TRUE)
    /\ resp' = Response("user_" \o action,
                        IF action = "update_profile" THEN "TypeError" ELSE "AttributeError", 0)
    /\ UNCHANGED <<userVars, accounts, cache, offUserApi>>

\* GET on list, me, statistics and retrieve by an authenticated caller
UserRead(u, action) ==
    /\ u \in userRows
    /\ action \in {"list", "me", "statistics", "retrieve"}
    /\ request' = UserRequest(action, u, TRUE)
    /\ resp' = Response("user_" \o action, "ok", u)
    /\ UNCHANGED <<userVars, accounts, cache, offUserApi>>

\* POST /users/register/ (RegisterSerializer: role and is_staff are not among
\* its fields, the row gets the defaults)
UserRegister(u) ==
    /\ u \in userRows \cup {Anonymous}
    /\ userRows # UserId
    /\ request' = UserRequest("register", u, TRUE)
    /\ userRows' = userRows \cup {FreeUser}
    /\ accounts' = [accounts EXCEPT ![FreeUser] = [role |-> "user", is_staff |-> FALSE]]
    /\ profiles' = [profiles EXCEPT ![FreeUser] =
                       create_user_profile(create_user_profile(@, TRUE), FALSE)]
    /\ cache' = Invalidated(user_created_keys)
    /\ resp' = Response("user_register", Answer("created"), FreeUser)
    /\ UNCHANGED offUserApi

\* POST /users/ (UserSerializer.create): role and is_staff are writable fields
\* and go to create_user with the rest of the validated data
UserApiCreate(u, new_role, new_staff) ==
    /\ u \in userRows
    /\ userRows # UserId
    /\ request' = UserRequest("create", u, TRUE)
    /\ userRows' = userRows \cup {FreeUser}
    /\ accounts' = [accounts EXCEPT ![FreeUser] = [role |-> new_role, is_staff |-> new_staff]]
    /\ profiles' = [profiles EXCEPT ![FreeUser] =
                       create_user_profile(create_user_profile(@, TRUE), FALSE)]
    /\ cache' = Invalidated(user_created_keys)
    /\ resp' = Response("user_create", Answer("created"), FreeUser)
    /\ UNCHANGED offUserApi

\* PUT/PATCH /users/{pk}/ (UserSerializer.update): get_object looks the row up
\* in get_queryset and checks has_object_permission; update sets every
\* validated attribute, role and is_staff among them, and saves
UserUpdate(u, target, new_role, new_staff) ==
    /\ u \in userRows
    /\ request' = UserRequest("partial_update", u, TRUE)
    /\ IF target \notin user_queryset(u, "partial_update")
       THEN /\ resp' = Response("user_partial_update", "not_found", target)
            /\ UNCHANGED <<accounts, profiles>>
       ELSE IF ~IsOwnerOrAdmin(u, "PATCH", target)
       THEN /\ resp' = Response("user_partial_update", "denied", target)
            /\ UNCHANGED <<accounts, profiles>>
       ELSE /\ accounts' = [accounts EXCEPT ![target] = [role |-> new_role, is_staff |-> new_staff]]
            /\ profiles' = [profiles EXCEPT ![target] = create_user_profile(@, FALSE)]
            /\ resp' = Response("user_partial_update", "ok", target)
    /\ UNCHANGED <<userRows, cache, offUserApi>>

\* the accounts of section Users but the last, which is free
InitUserApi ==
    /\ cats = {}
    /\ parent = [c \in CatId |-> NoParent]
    /\ name = [c \in CatId |-> NoName]
    /\ prodCat = [p \in ProdId |-> NoCat]
    /\ resp = Response("none", "none", 0)
    /\ stock = [p \in ProdId |-> 0]
    /\ stockReq = [w \in StockWorker |-> IdleStockReq]
    /\ baseline = [p \in ProdId |-> 0]
    /\ reviews = [i \in RevId |-> NoReview]
    /\ reviewReq = [w \in ReviewWorker |-> IdleReviewReq]
    /\ votesBase = [i \in RevId |-> 0]
    /\ NoTags
    /\ cache = EmptyCache
    /\ cacheUp = TRUE
    /\ cacheReq = [r \in Reader |-> IdleRead]
    /\ userRows = UserId \ {MaxUsers}
    /\ profiles = [u \in UserId |-> IF u = MaxUsers THEN 0 ELSE 1]
    /\ request = NoRequest
    /\ accounts = InitialAccounts
    /\ prodRow = [p \in ProdId |-> NoRow]

NextUserApi ==
    \/ \E u \in userRows \cup {Anonymous}, action \in UserActions : UserRefused(u, action)
    \/ \E action \in UserActions : UserAnonymousThrough(action)
    \/ \E u \in userRows, action \in UserActions : UserRead(u, action)
    \/ \E u \in userRows \cup {Anonymous} : UserRegister(u)
    \/ \E u \in userRows, new_role \in Roles, new_staff \in BOOLEAN : UserApiCreate(u, new_role, new_staff)
    \/ \E u \in userRows, target \in UserId, new_role \in Roles, new_staff \in BOOLEAN :
           UserUpdate(u, target, new_role, new_staff)

SpecUserApi == InitUserApi /\ [][NextUserApi]_vars

(***************************************************************************)
(* Product writes with the validation of ProductSerializer.  `data` is the *)
(* request data: category_id, price, cost, sku, tag_ids and status, each   *)
(* possibly absent; prodRow holds price, cost, sku and created_by of the   *)
(* rows written here.  is_valid() runs the field validators (price and     *)
(* cost carry MinValueValidator(0), sku is unique), validate_sku,          *)
(* validate_price and validate; only then create() or update() writes.     *)
(***************************************************************************)
\* a field that the request data do not hold
Absent == -2
Prices == -1..MaxPrice
Costs == {NoCost} \cup (-1..MaxPrice)

\* Python truth of a price or cost: None and 0 are false
Truthy(v) == v # NoCost /\ v # 0

\* attrs.get(field, getattr(self.instance, field, None) if self.instance else None)
attr_or_instance(attr, stored) == IF attr # Absent THEN attr ELSE stored

\* validate reading the request data only: attrs.get('cost'), attrs.get('price')
validate_attrs_only(attrs, inst) ==
    LET cost == attr_or_instance(attrs.cost, NoCost)
        price == attr_or_instance(attrs.price, NoCost)
    IN  ~(Truthy(cost) /\ Truthy(price) /\ cost >= price)

\* ProductSerializer.validate; inst is the row of the instance, NoRow when
\* there is none
validate(attrs, inst) ==
    LET cost == attr_or_instance(attrs.cost, inst.cost)
        price == attr_or_instance(attrs.price, inst.price)
    IN  ~(Truthy(cost) /\ Truthy(price) /\ cost >= price)

validate_price(value) == ~(value <= 0)

\* ProductSerializer.validate_sku for instance p (0: none)
validate_sku(value, p) == ~\E q \in ProductRows \ {p} : prodRow[q].sku = value

\* serializer.is_valid() for instance p (0: none): required fields, field
\* validators, validate_<field>, validate
ProductDataValid(data, p, partial) ==
    /\ partial \/ (data.price # Absent /\ data.sku # Absent /\ data.category_id # Absent)
    /\ data.price # Absent => data.price >= 0 /\ validate_price(data.price)
    /\ data.cost \notin {Absent, NoCost} => data.cost >= 0
    /\ data.sku # Absent => validate_sku(data.sku, p)
    /\ validate(data, IF p = 0 THEN NoRow ELSE prodRow[p])

\* POST /products/ by caller u: ProductSerializer.create inserts the row with
\* created_by = request.user (post_save runs), then sets the tags
ProductApiCreate(u, data) ==
    /\ u \in WriteCallers
    /\ IF ~ProductDataValid(data, 0, FALSE)
       THEN /\ resp' = Response("product_create", "invalid", 0)
            /\ UNCHANGED <<prodCat, prodRow, prodTags, published, cache>>
       ELSE IF data.category_id \notin cats
       THEN /\ resp' = Response("product_create", "IntegrityError", 0)
            /\ UNCHANGED <<prodCat, prodRow, prodTags, published, cache>>
       ELSE /\ \E p \in ProdId : prodCat[p] = NoCat
            /\ prodCat' = [prodCat EXCEPT ![FreeProd] = data.category_id]
            /\ prodRow' = [prodRow EXCEPT ![FreeProd] =
                             [price |-> data.price,
                              cost |-> IF data.cost = Absent THEN NoCost ELSE data.cost,
                              sku |-> data.sku, created_by |-> u]]
            /\ published' = [published EXCEPT ![FreeProd] = data.status]
            /\ cache' = Invalidated(invalidate_product_cache(data.category_id, {}))
            /\ IF ~cacheUp
               THEN /\ resp' = Response("product_create", "CacheError", FreeProd)
                    /\ UNCHANGED prodTags
               ELSE IF data.tag_ids = KeepTags
               THEN /\ resp' = Response("product_create", "created", FreeProd)
                    /\ UNCHANGED prodTags
               ELSE IF ~TagsSettable(data.tag_ids)
               THEN /\ resp' = Response("product_create", "IntegrityError", FreeProd)
                    /\ UNCHANGED prodTags
               ELSE /\ resp' = Response("product_create", "created", FreeProd)
                    /\ prodTags' = [prodTags EXCEPT ![FreeProd] = data.tag_ids]
    /\ UNCHANGED <<cats, parent, name, tags, stock, stockReq, baseline, reviewVars,
                   cacheUp, cacheReq, userVars, request, accounts>>

\* PUT (partial = FALSE) or PATCH (partial = TRUE) /products/{slug}/ by
\* caller u: ProductSerializer.update sets the attributes sent, saves
\* (post_save runs), then sets the tags if tag_ids was sent
ProductApiUpdate(u, p, data, partial) ==
    /\ u \in WriteCallers
    /\ IF prodCat[p] = NoCat \/ ~Sees(u, p)
       THEN /\ resp' = Response("product_update", "not_found", p)
            /\ UNCHANGED <<prodCat, prodRow, prodTags, published, cache>>
       ELSE IF ~ProductDataValid(data, p, partial)
       THEN /\ resp' = Response("product_update", "invalid", p)
            /\ UNCHANGED <<prodCat, prodRow, prodTags, published, cache>>
       ELSE IF data.category_id # Absent /\ data.category_id \notin cats
       THEN /\ resp' = Response("product_update", "IntegrityError", p)
            /\ UNCHANGED <<prodCat, prodRow, prodTags, published, cache>>
       ELSE LET c == attr_or_instance(data.category_id, prodCat[p])
            IN  /\ prodCat' = [prodCat EXCEPT ![p] = c]
                /\ prodRow' = [prodRow EXCEPT ![p] =
                                 [price |-> attr_or_instance(data.price, @.price),
                                  cost |-> attr_or_instance(data.cost, @.cost),
                                  sku |-> attr_or_instance(data.sku, @.sku),
                                  created_by |-> @.created_by]]
                /\ published' = [published EXCEPT ![p] = data.status]
                /\ cache' = Invalidated(invalidate_product_cache(c, prodTags[p]))
                /\ IF ~cacheUp
                   THEN /\ resp' = Response("product_update", "CacheError", p)
                        /\ UNCHANGED prodTags
                   ELSE IF data.tag_ids = KeepTags
                   THEN /\ resp' = Response("product_update", "ok", p)
                        /\ UNCHANGED prodTags
                   ELSE IF ~TagsSettable(data.tag_ids)
                   THEN /\ resp' = Response("product_update", "IntegrityError", p)
                        /\ UNCHANGED prodTags
                   ELSE /\ resp' = Response("product_update", "ok", p)
                        /\ prodTags' = [prodTags EXCEPT ![p] = data.tag_ids]
    /\ UNCHANGED <<cats, parent, name, tags, stock, stockReq, baseline, reviewVars,
                   cacheUp, cacheReq, userVars, request, accounts>>

\* one category, every tag, no product
InitPricing ==
    /\ cats = {1}
    /\ parent = [c \in CatId |-> NoParent]
    /\ name = [c \in CatId |-> IF c = 1 THEN "Electronics" ELSE NoName]
    /\ prodCat = [p \in ProdId |-> NoCat]
    /\ resp = Response("none", "none", 0)
    /\ stock = [p \in ProdId |-> 0]
    /\ stockReq = [w \in StockWorker |-> IdleStockReq]
    /\ baseline = [p \in ProdId |-> 0]
    /\ reviews = [i \in RevId |-> NoReview]
    /\ reviewReq = [w \in ReviewWorker |-> IdleReviewReq]
    /\ votesBase = [i \in RevId |-> 0]
    /\ tags = TagId
    /\ prodTags = [p \in ProdId |-> {}]
    /\ published = [p \in ProdId |-> FALSE]
    /\ QuietStart

\* requests of the staff administrator that leave category, tags and status
\* as they are; a sku sent is the one of the row's own id or the one of the
\* first row
PricingData(p) ==
    {[category_id |-> 1, price |-> pr, cost |-> co, sku |-> sk, tag_ids |-> KeepTags, status |-> FALSE] :
        pr \in Prices \cup {Absent}, co \in Costs \cup {Absent}, sk \in {p, 1, Absent}}

NextPricing ==
    \/ /\ \E p \in ProdId : prodCat[p] = NoCat
       /\ \E u \in StaffCallers, data \in PricingData(FreeProd) : ProductApiCreate(u, data)
    \/ \E u \in StaffCallers, p \in ProdId, partial \in BOOLEAN :
           \E data \in PricingData(p) : ProductApiUpdate(u, p, data, partial)

SpecPricing == InitPricing /\ [][NextPricing]_vars

\* requests of the staff administrator with tag_ids: absent, none, the
\* first tag, or an id that no tag row has
WriteData(p) ==
    {[category_id |-> 1, price |-> pr, cost |-> co, sku |-> sk, tag_ids |-> T, status |-> FALSE] :
        pr \in {0, 1, 2}, co \in {Absent, 1, 2}, sk \in {p, 1},
        T \in {KeepTags, {}, {1}, {MaxTags + 1}}}

NextProductWrites ==
    \/ /\ \E p \in ProdId : prodCat[p] = NoCat
       /\ \E u \in StaffCallers, data \in WriteData(FreeProd) : ProductApiCreate(u, data)
    \/ \E u \in StaffCallers, p \in ProdId, partial \in BOOLEAN :
           \E data \in WriteData(p) : ProductApiUpdate(u, p, data, partial)

SpecProductWrites == InitPricing /\ [][NextProductWrites]_vars

(***************************************************************************)
(* Creates and deletes of users, products and reviews, one request after   *)
(* the other, on a product table of at most one row.  A product is created *)
(* by an administrator or manager who has a row, a review by any user who  *)
(* has one; a review is deleted by its author.                             *)
(***************************************************************************)
\* a valid product of category 1 with the sku of its own id
PlainProduct(p) ==
    [category_id |-> 1, price |-> 1, cost |-> Absent, sku |-> p, tag_ids |-> KeepTags, status |-> TRUE]

NextReferences ==
    \/ UserCreate
    \/ \E u \in userRows : UserDelete(u)
    \/ /\ \A p \in ProdId : prodCat[p] = NoCat
       /\ \E u \in WriteCallers \cap userRows : ProductApiCreate(u, PlainProduct(FreeProd))
    \/ \E p \in ProductRows : ProductDelete(p)
    \/ /\ \A v \in ReviewWorker : reviewReq[v].pc = "idle"
       /\ \E w \in ReviewWorker, u \in userRows, p \in ProductRows : ReviewCreate(w, u, p, TRUE)
    \/ CollectReviewResponses
    \/ \E i \in ReviewIds : ReviewDestroy(reviews[i].user, i)

SpecReferences == InitPricing /\ [][NextReferences]_vars

(***************************************************************************)
(* Requests refused for what the caller is.  The category, product and tag *)
(* viewsets refuse a write in check_permissions (CatalogDenied), approve   *)
(* and reject want IsAdminUser (ReviewModerateDenied), the user viewset    *)
(* hides the rows of others from a regular user (UserUpdate).  low_stock   *)
(* and statistics of ProductViewSet are GET actions, which                 *)
(* IsAdminOrManagerOrReadOnly lets through for everyone: they test the     *)
(* caller themselves, first thing, and answer 403.                         *)
(***************************************************************************)
\* the test at the head of low_stock, and the one of statistics
low_stock_allowed(u) == u # Anonymous /\ is_staff[u]
statistics_allowed(u) == u # Anonymous /\ (is_staff[u] \/ is_admin(u) \/ is_manager(u))

\* a refusal that empties the cache on its way
ProductReportFlushing(u, op) ==
    /\ op \in {"low_stock", "statistics"}
    /\ resp' = Response(op, "denied", 0)
    /\ cache' = EmptyCache
    /\ UNCHANGED <<treeVars, tagVars, offCatalog>>

\* GET /products/low_stock/ and GET /products/statistics/ by caller u
ProductReport(u, op) ==
    /\ op \in {"low_stock", "statistics"}
    /\ resp' = Response(op,
                        IF (op = "low_stock" /\ low_stock_allowed(u))
                              \/ (op = "statistics" /\ statistics_allowed(u))
                        THEN "ok" ELSE "denied", 0)
    /\ UNCHANGED <<treeVars, tagVars, cache, offCatalog>>

\* product writes, reads through the cache, and requests of callers of every
\* kind, a PATCH of a user row among them that sends the stored values
NextDenied ==
    \/ \E c \in cats, pub \in BOOLEAN : ProductCreate(c, {}, pub)
    \/ \E p \in ProductRows : ProductDelete(p)
    \/ \E key \in ProductCacheKeys : get_or_compute(key)
    \/ \E op \in {"product_create", "product_update", "product_delete"} : CatalogDenied(op)
    \/ \E u \in Actors, op \in {"low_stock", "statistics"} : ProductReport(u, op)
    \/ \E approved \in BOOLEAN : ReviewModerateDenied(approved)
    \/ \E u \in userRows, target \in userRows :
           UserUpdate(u, target, accounts[target].role, accounts[target].is_staff)

SpecDenied == InitPricing /\ [][NextDenied]_vars

(***************************************************************************)
(* C1.  In an acyclic category forest, full_path(C) is C.name when C has   *)
(* no parent and full_path(P) + " > " + C.name when C has parent P; so it  *)
(* lists the names of the ancestors from the root down to C.               *)
(***************************************************************************)
C1_FullPath ==
    Acyclic =>
        \A c \in cats :
            LET r == full_path(c)
            IN  /\ r.raised = ""
                /\ parent[c] = NoParent => r.val = name[c]
                /\ parent[c] # NoParent =>
                       r.val = full_path(parent[c]).val \o " > " \o name[c]
                /\ r.val = JoinFromRoot(c, Depth(c))

\* a chain of three categories, with the path of the test's scenario in it
C1_Witness ==
    /\ Acyclic
    /\ \E c, p, d \in cats :
          /\ parent[p] = NoParent /\ parent[c] = p /\ parent[d] = c
          /\ name[p] = "Electronics" /\ name[c] = "Computers"
          /\ full_path(c).val = "Electronics > Computers"
          /\ full_path(d).val = "Electronics > Computers > Books"

(***************************************************************************)
(* C2.  In an acyclic category forest, get_descendants(C) returns exactly  *)
(* the categories that have C as a proper ancestor, each once, never C     *)
(* itself, and nothing for a leaf.                                         *)
(***************************************************************************)
C2_Descendants ==
    Acyclic =>
        \A c \in cats :
            LET r == get_descendants(c)
                listed == {r.val[i] : i \in 1..Len(r.val)}
            IN  /\ r.raised = ""
                /\ listed = ProperDescendants(c)
                /\ Len(r.val) = Cardinality(ProperDescendants(c))
                /\ c \notin listed
                /\ (\A d \in cats : parent[d] # c) => r.val = <<>>

\* a root with a child and a grandchild, and a leaf
C2_Witness ==
    /\ Acyclic
    /\ \E c, d, e \in cats :
          /\ parent[c] = NoParent /\ parent[d] = c /\ parent[e] = d
          /\ Len(get_descendants(c).val) = 2
          /\ get_descendants(e).val = <<>>

(***************************************************************************)
(* C3.  After any sequence of category creates and updates the parent      *)
(* relation is acyclic: no category is its own ancestor.                   *)
(***************************************************************************)
C3_ParentAcyclic == \A c \in cats : c \notin Ancestors(c)

(***************************************************************************)
(* C4.  When the stored parent relation has a cycle, full_path on a        *)
(* category on or leading into the cycle, and get_descendants on a         *)
(* category on the cycle, end with a detected-cycle error.                 *)
(***************************************************************************)
C4_CycleDetected ==
    \A c \in cats :
        /\ LeadsIntoCycle(c) => full_path(c).raised = "CycleError"
        /\ OnCycle(c) => get_descendants(c).raised = "CycleError"

(***************************************************************************)
(* C5.  reduce_stock(q) on a product whose stock is s: when s >= q the     *)
(* stock becomes s - q, is saved, and the call returns True; when s < q    *)
(* the call returns False and the stock stays.  So reduce_stock(5) then    *)
(* reduce_stock(10) on stock 10 give True, False and leave 5.              *)
(***************************************************************************)
C5_ReduceStock ==
    [][\A w \in StockWorker :
          (stockReq[w].pc = "loaded" /\ stockReq[w].op = "reduce_stock" /\ stockReq'[w].pc = "done")
          => LET s == stockReq[w].inst
                 q == stockReq[w].q
                 p == stockReq[w].prod
             IN  IF s >= q
                 THEN /\ stock'[p] = s - q
                      /\ stockReq'[w].status = "True"
                 ELSE /\ stock' = stock
                      /\ stockReq'[w].status = "False"]_vars

\* the test's run: from stock 10, reduce_stock(5) returned True and then
\* reduce_stock(10) returned False, and the stock is 5
C5_Witness ==
    \E v, w \in StockWorker :
        /\ stockReq[v] = [pc |-> "done", op |-> "reduce_stock", prod |-> 1, q |-> 5,
                          inst |-> 10, status |-> "True", saved |-> 5]
        /\ stockReq[w] = [pc |-> "done", op |-> "reduce_stock", prod |-> 1, q |-> 10,
                          inst |-> 5, status |-> "False", saved |-> NoSave]
        /\ baseline[1] = 10
        /\ stock[1] = 5

(***************************************************************************)
(* C6.  After any sequence of reduce_stock calls and update_stock requests *)
(* (set, add or subtract, with any integer quantity), every product's      *)
(* stock_quantity is >= 0.                                                 *)
(***************************************************************************)
C6_StockNonNegative == \A p \in ProdId : stock[p] >= 0

\* an add of a negative quantity larger than the stock was attempted, and the
\* stored quantity is still what it was
C6_Witness ==
    \E w \in StockWorker :
        /\ stockReq[w].pc = "done" /\ stockReq[w].op = "add"
        /\ stockReq[w].inst + stockReq[w].q < 0
        /\ stockReq[w].status = "IntegrityError"
        /\ stock[stockReq[w].prod] = stockReq[w].inst

(***************************************************************************)
(* C7.  When stock requests on one product interleave (reduce_stock, and   *)
(* update_stock with add or subtract), no update is lost: once all have    *)
(* answered, the stock is the stock they started from plus the change each *)
(* successful request made; and a reduce_stock that succeeds finds at      *)
(* least its quantity in the stored stock.                                 *)
(***************************************************************************)
RECURSIVE SumOfChanges(_, _)
SumOfChanges(W, p) ==
    IF W = {} THEN 0
    ELSE LET w == CHOOSE x \in W : TRUE
             r == stockReq[w]
             change == IF r.pc = "done" /\ r.prod = p /\ r.saved # NoSave
                       THEN r.saved - r.inst ELSE 0
         IN  change + SumOfChanges(W \ {w}, p)

AllAnswered == \A w \in StockWorker : stockReq[w].pc # "loaded"
NoSetRequest == \A w \in StockWorker : stockReq[w].op # "set"

C7_NoLostUpdate ==
    [][/\ (AllAnswered /\ NoSetRequest)' =>
             \A p \in ProdId : stock'[p] = baseline'[p] + SumOfChanges(StockWorker, p)'
       /\ \A w \in StockWorker :
             (stockReq[w].op = "reduce_stock" /\ stockReq'[w].status = "True" /\ stockReq[w].status = "")
             => stock[stockReq[w].prod] >= stockReq[w].q]_vars

(***************************************************************************)
(* C8.  When N mark_helpful requests on one review run concurrently, in    *)
(* any interleaving, the review's helpful_votes ends exactly N higher than *)
(* it started.                                                             *)
(***************************************************************************)
MarkedHelpful(i) ==
    {w \in ReviewWorker : /\ reviewReq[w].pc = "done" /\ reviewReq[w].op = "mark_helpful"
                          /\ reviewReq[w].target = i /\ reviewReq[w].status = "ok"}

AllReviewsAnswered == \A w \in ReviewWorker : reviewReq[w].pc \in {"idle", "done"}

C8_NoLostVote ==
    AllReviewsAnswered =>
        \A i \in ReviewIds :
            reviews[i].helpful_votes = votesBase[i] + Cardinality(MarkedHelpful(i))

(***************************************************************************)
(* C9.  After any sequence and interleaving of review submissions          *)
(* (add_review, or review creation) there is at most one review per        *)
(* (product, user) pair: a submission by a user who already has a review   *)
(* of the product is answered with an error and adds no row.               *)
(***************************************************************************)
SubmissionErrors == {"already_reviewed", "IntegrityError", "invalid"}

RowsOf(rows, p, u) == {i \in RevId : rows[i] # NoReview /\ rows[i].product = p /\ rows[i].user = u}

C9_OneReviewPerPair ==
    [][/\ \A p \in ProdId, u \in UserId : Cardinality(RowsOf(reviews', p, u)) <= 1
       /\ \A w \in ReviewWorker :
             LET r == reviewReq'[w]
             IN  (/\ reviewReq[w].pc # "done" /\ r.pc = "done"
                  /\ r.op \in {"add_review", "review_create"}
                  /\ r.user \in UserId /\ r.target \in ProdId
                  /\ RowsOf(reviews, r.target, r.user) # {})
                 => /\ r.status \in SubmissionErrors
                    /\ reviews' = reviews
                    /\ Cardinality(RowsOf(reviews', r.target, r.user)) = 1]_vars

\* two add_review requests of one user for one product both passed the
\* exists() query; one was answered created, the other IntegrityError, and
\* there is one row
C9_Witness ==
    \E v, w \in ReviewWorker :
        /\ reviewReq[v].op = "add_review" /\ reviewReq[v].status = "created"
        /\ reviewReq[w].op = "add_review" /\ reviewReq[w].status = "IntegrityError"
        /\ reviewReq[v].user = reviewReq[w].user /\ reviewReq[v].target = reviewReq[w].target
        /\ Cardinality(ReviewsOf(reviewReq[w].target, reviewReq[w].user)) = 1

(***************************************************************************)
(* C10.  A delete of a category that at least one product references is    *)
(* rejected, and the step leaves every category and product row as it was. *)
(***************************************************************************)
C10_ProtectedDelete ==
    [][(/\ resp'.op = "category_delete" /\ resp'.id \in cats
        /\ \E p \in ProdId : prodCat[p] = resp'.id)
          => /\ resp'.status = "ProtectedError"
             /\ UNCHANGED treeVars]_vars

\* a delete answered ProtectedError for a category that owns both products
C10_Witness ==
    /\ resp.op = "category_delete"
    /\ resp.status = "ProtectedError"
    /\ \A p \in ProdId : prodCat[p] = resp.id

(***************************************************************************)
(* C11.  When a product create or update has completed, the cache holds no *)
(* entry for category_products of the product's category, for              *)
(* featured_products, for product_stats, or for tag_products of any tag    *)
(* the product now has.                                                    *)
(***************************************************************************)
ProductKeysOf(c, T) ==
    {<<"category_products", c>>, <<"featured_products", 0>>, <<"product_stats", 0>>}
        \cup {<<"tag_products", t>> : t \in T}

\* the step put nothing into the cache: it is not a read
NoFill == (DOMAIN cache') \subseteq DOMAIN cache

C11_ProductSaveInvalidates ==
    [][(/\ resp'.op \in {"product_create", "product_update"}
        /\ resp'.status \in {"created", "ok"}
        /\ NoFill)
          => (DOMAIN cache') \cap ProductKeysOf(prodCat'[resp'.id], prodTags'[resp'.id]) = {}]_vars

(***************************************************************************)
(* C12.  When a product delete has completed, the cache holds no entry for *)
(* category_products of the category the product had, for                  *)
(* featured_products, for product_stats, or for tag_products of any tag    *)
(* the product had before the delete.                                      *)
(***************************************************************************)
C12_ProductDeleteInvalidates ==
    [][(resp'.op = "product_delete" /\ resp'.status = "deleted" /\ NoFill)
          => (DOMAIN cache') \cap ProductKeysOf(prodCat[resp'.id], prodTags[resp'.id]) = {}]_vars

(***************************************************************************)
(* C13.  When a create or an update of a category has been answered, the   *)
(* cache holds no entry under category_tree, root_categories, the          *)
(* category's own key, nor under the key of its parent when it has one.    *)
(***************************************************************************)
CategoryKeysOf(c, par) ==
    {<<"category_tree", 0>>, <<"root_categories", 0>>, <<"category", c>>}
        \cup {<<"category", d>> : d \in {par} \ {NoParent}}

C13_CategorySaveInvalidates ==
    [][(/\ resp'.op \in {"category_create", "category_update"}
        /\ resp'.status \in {"created", "ok"}
        /\ NoFill)
          => (DOMAIN cache') \cap CategoryKeysOf(resp'.id, parent'[resp'.id]) = {}]_vars

\* an update answered for a category with a parent, while the entry of a
\* third category is still cached
C13_Witness ==
    /\ resp.op = "category_update"
    /\ resp.status = "ok"
    /\ parent[resp.id] \in cats \ {resp.id}
    /\ \E d \in cats \ {resp.id, parent[resp.id]} : <<"category", d>> \in DOMAIN cache
    /\ (DOMAIN cache) \cap CategoryKeysOf(resp.id, parent[resp.id]) = {}

(***************************************************************************)
(* C14.  When a create, an update (approve, reject, mark_helpful, the      *)
(* admin's bulk approve and reject) or a delete of a review has been done, *)
(* the cache holds no entry under product_rating nor product_reviews of    *)
(* the reviewed product.  Stated here for the moderation requests: a step  *)
(* that changes a review row or removes it leaves neither key of its       *)
(* product in the cache.                                                   *)
(***************************************************************************)
ReviewKeysOf(p) == {<<"product_rating", p>>, <<"product_reviews", p>>}

C14_ReviewWriteInvalidates ==
    [][\A i \in RevId :
          (reviews'[i] # reviews[i] /\ reviews[i] # NoReview)
             => (DOMAIN cache') \cap ReviewKeysOf(reviews[i].product) = {}]_vars

(***************************************************************************)
(* C15.  After any sequence of user creations, user saves and profile      *)
(* requests every user has exactly one profile: the creation of the user   *)
(* creates it, no later save or profile request creates a second; and the  *)
(* creation of a user leaves no user_stats entry in the cache.             *)
(***************************************************************************)
C15_OneProfilePerUser ==
    [][/\ \A u \in userRows' : profiles'[u] = 1
       /\ \A u \in userRows' \ userRows : <<"user_stats", 0>> \notin DOMAIN cache']_vars

\* a profile request answered for one of two accounts, each with its profile
C15_Witness ==
    /\ resp.op = "profile"
    /\ resp.id \in userRows
    /\ Cardinality(userRows) >= 2
    /\ \A u \in userRows : profiles[u] = 1

(***************************************************************************)
(* C16.  After a mutation of a product (create, update, delete, the        *)
(* admin's bulk publish) a read of category_products of an affected        *)
(* category returns the value computed from the store as the mutation left *)
(* it: an entry that is still cached equals that value.                    *)
(***************************************************************************)
C16_FreshAfterProductMutation ==
    [][\A p \in ProdId :
          (prodCat'[p] # prodCat[p] \/ published'[p] # published[p])
             => \A c \in {prodCat[p], prodCat'[p]} \ {NoCat} :
                   <<"category_products", c>> \in DOMAIN cache'
                      => cache'[<<"category_products", c>>]
                            = Cardinality({q \in ProdId : prodCat'[q] = c /\ published'[q]})]_vars

(***************************************************************************)
(* C17.  When a read through the cache (miss, compute, store) overlaps     *)
(* with a write (mutate, then invalidate), then once every request has     *)
(* finished a value that is cached equals a fresh computation from the     *)
(* store.                                                                  *)
(***************************************************************************)
C17_NoStaleAfterRace ==
    (\A r \in Reader : cacheReq[r].pc = "idle")
        => \A c \in cats :
              <<"category_products", c>> \in DOMAIN cache
                 => cache[<<"category_products", c>>]
                       = Cardinality({q \in ProdId : prodCat[q] = c /\ published[q]})

(***************************************************************************)
(* C18.  When the cache backend fails during the invalidation a write or a *)
(* delete triggers, the failure does not reach the caller and the write or *)
(* delete is committed: no request is answered with the cache's error, and *)
(* a delete of a stored product that was let through removes the row.      *)
(***************************************************************************)
C18_CacheFailureContained ==
    [][/\ resp'.status # "CacheError"
       /\ (/\ ~cacheUp /\ ~cacheUp'
           /\ resp'.op = "product_delete"
           /\ resp'.status \notin {"not_found", "denied"}
           /\ prodCat[resp'.id] # NoCat)
             => prodCat'[resp'.id] = NoCat]_vars

(***************************************************************************)
(* C19.  For every category, in every reachable state, the number of       *)
(* published products the products endpoint lists for it (the category     *)
(* with all its descendants) is at least the product count of the category *)
(* alone.                                                                  *)
(***************************************************************************)
C19_CountMonotone ==
    \A c \in cats :
        /\ category_products(c).raised = ""
        /\ category_products(c).val >= get_product_count(c)

(***************************************************************************)
(* C20.  On the category, product and tag endpoints a request of an        *)
(* unauthenticated user is denied; a request of an authenticated user with *)
(* a read-only method is allowed whatever the role; a request with another *)
(* method is allowed only if the user is staff or has role admin or        *)
(* manager; and no row of a category, product or tag is created, changed   *)
(* or deleted unless the request checked last came from such a user.       *)
(***************************************************************************)
MayWrite(r) == r.authenticated /\ (r.staff \/ r.role \in {"admin", "manager"})

Subtree(c) == {c} \cup ProperDescendants(c)

C26_SubtreeDelete ==
    [][(resp'.op = "category_delete" /\ resp'.id \in cats)
          => IF \E p \in ProdId : prodCat[p] \in Subtree(resp'.id)
             THEN /\ resp'.status = "ProtectedError"
                  /\ UNCHANGED treeVars
             ELSE /\ resp'.status = "deleted"
                  /\ cats' = cats \ Subtree(resp'.id)
                  /\ UNCHANGED prodCat]_vars

\* a delete answered ProtectedError for a category that holds no product
\* itself, because of a product of a descendant
C26_Witness ==
    /\ resp.op = "category_delete"
    /\ resp.status = "ProtectedError"
    /\ resp.id \in cats
    /\ \A p \in ProdId : prodCat[p] # resp.id
    /\ \E p \in ProdId : prodCat[p] \in ProperDescendants(resp.id)

(***************************************************************************)
(* C27.  A review is modified or deleted only by its author or by a staff  *)
(* user: a worker that answers an update or a delete of a review with      *)
(* success handled the request of the review's author or of a staff user.  *)
(***************************************************************************)
C27_ReviewOwnerOrStaff ==
    [][\A w \in ReviewWorker :
          (/\ reviewReq'[w] # reviewReq[w]
           /\ reviewReq'[w].pc = "done"
           /\ reviewReq'[w].op \in {"review_update", "review_delete"}
           /\ reviewReq'[w].status \in {"ok", "deleted"})
             => \/ is_staff[reviewReq'[w].user]
                \/ reviews[reviewReq'[w].target].user = reviewReq'[w].user]_vars

(***************************************************************************)
(* C29.  The is_approved flag of a review changes only through an action   *)
(* of a staff user: a step that flips it is not the answer to a request of *)
(* a user who is not staff.                                                *)
(***************************************************************************)
C29_ApprovalByStaffOnly ==
    [][(\E i \in RevId :
           /\ reviews[i] # NoReview /\ reviews'[i] # NoReview
           /\ reviews'[i].is_approved # reviews[i].is_approved)
          => \A w \in ReviewWorker :
                reviewReq'[w] # reviewReq[w] => is_staff[reviewReq'[w].user]]_vars

(***************************************************************************)
(* C30.  In every reachable store, every product a read of a               *)
(* product-returning endpoint (list, detail, featured, the products of a   *)
(* category, the products of a tag) returns to a user who is not staff is  *)
(* published.                                                              *)
(***************************************************************************)
ReturnedToNonStaff ==
    product_list(FALSE)
        \cup UNION {product_detail(FALSE, p) : p \in ProdId}
        \cup UNION {featured(FALSE, F) : F \in SUBSET ProdId}
        \cup UNION {category_product_rows(c) : c \in cats}
        \cup UNION {tag_product_rows(t) : t \in tags}

C30_OnlyPublishedReturned == \A p \in ReturnedToNonStaff : published[p]

\* a draft product and a published one in the subcategory: the reads return
\* the published one, also under the parent category and under its tag
C30_Witness ==
    \E p, q \in ProductRows :
        /\ ~published[p] /\ published[q]
        /\ prodCat[p] = 2 /\ prodCat[q] = 2
        /\ q \in category_product_rows(1)
        /\ \E t \in tags : q \in tag_product_rows(t) /\ t \in prodTags[p]
        /\ ReturnedToNonStaff = {q}

(***************************************************************************)
(* C25.  A request without credentials on a user endpoint other than        *)
(* registration is answered with the authentication error (401) and        *)
(* changes nothing.                                                        *)
(***************************************************************************)
C25_UnauthenticatedRejected ==
    [][(request'.view = "user" /\ ~request'.authenticated /\ request'.method # "register")
          => /\ resp'.status = "not_authenticated"
             /\ UNCHANGED <<userRows, profiles, accounts, cache>>]_vars

(***************************************************************************)
(* C28.  A request of a caller whose role is 'user' and who is not staff   *)
(* changes the role or is_staff of no account.                             *)
(***************************************************************************)
C28_NoPrivilegeChangeByUser ==
    [][(request'.view = "user" /\ request'.authenticated
           /\ ~request'.staff /\ request'.role = "user")
          => \A t \in userRows : accounts'[t] = accounts[t]]_vars

(***************************************************************************)
(* C22.  Every product row written through the product API has a price     *)
(* above zero and, when it has a cost, a cost below the price.             *)
(***************************************************************************)
C22_PriceAboveCost ==
    \A p \in ProductRows :
        /\ prodRow[p].price > 0
        /\ prodRow[p].cost # NoCost => prodRow[p].cost < prodRow[p].price

\* a partial update that sent only a cost, or only a price, was checked
\* against the stored other value: one was refused, and one was applied
C22_Witness ==
    /\ resp.op = "product_update" /\ resp.status = "ok"
    /\ \E p \in ProductRows : prodRow[p].cost > 0 /\ prodRow[p].price = prodRow[p].cost + 1

(***************************************************************************)
(* C23.  A product create or update that fails on its input (answered as   *)
(* invalid, or with the IntegrityError of an unknown id) leaves the        *)
(* product rows and the tag associations as they were.                     *)
(***************************************************************************)
C23_RejectedNotApplied ==
    [][(resp'.op \in {"product_create", "product_update"}
           /\ resp'.status \in {"invalid", "IntegrityError"})
          => UNCHANGED <<prodCat, prodRow, prodTags, published>>]_vars

(***************************************************************************)
(* C24.  Every review row references a product row and a user row that     *)
(* exist, and every product row written with its creator references a user *)
(* row that exists.                                                        *)
(***************************************************************************)
C24_ReferencesExist ==
    /\ \A i \in ReviewIds : prodCat[reviews[i].product] # NoCat /\ reviews[i].user \in userRows
    /\ \A p \in ProductRows : prodRow[p].created_by \in userRows

\* a user whose review request is still on record was deleted, while another
\* user's review and a product stay
C24_Witness ==
    /\ resp = Response("user_delete", "deleted", resp.id)
    /\ \E w \in ReviewWorker :
          /\ reviewReq[w].op = "review_create" /\ reviewReq[w].status = "created"
          /\ reviewReq[w].user = resp.id
    /\ ReviewIds # {}
    /\ ProductRows # {}

(***************************************************************************)
(* C21.  A request refused for what the caller is (403 for the role, or    *)
(* the 404 that hides another user's row from a regular user) leaves every *)
(* table and the cache as they were.                                       *)
(***************************************************************************)
RefusedForCaller(r) ==
    \/ r.status = "denied"
    \/ r.op = "user_partial_update" /\ r.status = "not_found"

C21_DenialChangesNothing ==
    [][(RefusedForCaller(resp') /\ resp' # resp)
          => UNCHANGED <<treeVars, tagVars, prodRow, stock, reviews, userVars, accounts, cache>>]_vars

\* a refusal answered while there are product rows and cache entries
C21_Witness ==
    /\ RefusedForCaller(resp)
    /\ ProductRows # {}
    /\ DOMAIN cache # {}

====
